---- MODULE Spec2Model ----
(***************************************************************************)
(* A model of evon, the event-dispatcher generator: the annotation scanner *)
(* (extractAnnotation), the declaration binder (parser.ParseFile in its    *)
(* annotation-stack and its comment-cursor form), shape extraction         *)
(* (parser.ExtractEvent over typeResolver.Resolve) and the driver that     *)
(* decides whether the output file is written, removed or left alone.      *)
(***************************************************************************)
EXTENDS Integers, Sequences, FiniteSets, TLC

VARIABLES
    pc,        \* position of the run
    cg,        \* the comment group handed to extractAnnotation
    annIn,     \* how cg was written: the tokens meant and the layout
    annRes,    \* what extractAnnotation returned for cg
    variant,   \* the form of the parser: "stack" or "cursor"
    pkgSyntax, \* pkg.Syntax: the source units of the package
    fileIdx,   \* the number of units ParsePkg has handed to ParseFile
    par,       \* the parser
    identNames, \* the names written into identifier nodes
    scanLog,   \* per unit, the comment groups handed to extractAnnotation
    bindLog,   \* per unit, the calls of ExtractEvent
    flagShow,  \* the -show flag
    pkgErrors, \* pkg.Errors: where each error of the build stands
    outFile,   \* what is stored at the output path
    handle,    \* the handle os.Create returned: "none" or "open"
    trace,     \* the calls made that write output: generate, writeFile, os.*
    stderr,    \* the lines printed to os.Stderr
    stdout,    \* the lines printed to os.Stdout
    status,    \* the exit status of the program
    walk,      \* the calls of Resolve and extractInterface in progress
    ge         \* the genEvent generate is building, with the signatures it reads

annVars == <<cg, annIn, annRes>>
parseVars == <<variant, pkgSyntax, fileIdx, par, identNames, scanLog, bindLog>>
procVars == <<flagShow, pkgErrors, outFile, handle, trace, stderr, stdout, status>>
walkVars == <<walk, ge>>
vars == <<pc, annVars, parseVars, procVars, walkVars>>

(***************************************************************************)
(* Bounds of the model.                                                    *)
(***************************************************************************)
MaxLines == 2
MaxMarkers == 2

(***************************************************************************)
(* Sequence helpers.                                                       *)
(***************************************************************************)
\* F applied to the value of v: TLC evaluates an operator argument anew at
\* each use of the parameter, a bound variable once.
Strict(F(_), v) == CHOOSE r \in {F(x) : x \in {v}} : TRUE

Range(s) == {s[i] : i \in 1..Len(s)}

Reverse(s) == [i \in 1..Len(s) |-> s[Len(s) + 1 - i]]

RECURSIVE Concat(_)
Concat(ss) == IF ss = <<>> THEN <<>> ELSE Head(ss) \o Concat(Tail(ss))

SeqsUpTo(S, n) == UNION {[1..k -> S] : k \in 0..n}

(***************************************************************************)
(* Annotation flags.  A flag text is a sequence of characters; a flag word *)
(* is one character of the model, so that splitting at commas and trimming *)
(* white space are computed as strings.Split and strings.TrimSpace do.     *)
(***************************************************************************)
annCatch == "catch"
annLock == "lock"
annPause == "pause"
annQueue == "queue"
annSpawn == "spawn"
annUnusb == "unsub"
annWait == "wait"
annSep == ","

validFlags == {annCatch, annLock, annPause, annQueue, annSpawn, annUnusb, annWait}

WhiteSpace == {" ", "\t"}

RECURSIVE TrimLeft(_)
TrimLeft(s) ==
    IF s # <<>> /\ Head(s) \in WhiteSpace THEN TrimLeft(Tail(s)) ELSE s

TrimSpaceLeftOnly(s) == TrimLeft(s)

TrimSpace(s) == Reverse(TrimLeft(Reverse(TrimLeft(s))))

\* strings.Split(s, sep): the pieces between the separators, empty ones kept.
RECURSIVE Split(_, _)
Split(s, sep) ==
    IF \A i \in 1..Len(s) : s[i] # sep
    THEN <<s>>
    ELSE LET k == CHOOSE i \in 1..Len(s) :
                      s[i] = sep /\ \A j \in 1..(i - 1) : s[j] # sep
         IN  <<SubSeq(s, 1, k - 1)>> \o Split(SubSeq(s, k + 1, Len(s)), sep)

\* validFlags[flag]: the token is one flag word and nothing else.
IsValidFlag(tok) == Len(tok) = 1 /\ tok[1] \in validFlags

(***************************************************************************)
(* Errors and annotations.                                                 *)
(***************************************************************************)
NoErr == [kind |-> "", pos |-> 0, next |-> 0, arg |-> <<>>]
Err(kind, pos, next, arg) == [kind |-> kind, pos |-> pos, next |-> next, arg |-> arg]

NoAnn == [Pos |-> 0, Flags |-> {}]

(***************************************************************************)
(* annRe: a comment text is a sequence of items, a filler character or a   *)
(* marker @evon(...) with the text between its parentheses.  A match is    *)
(* the offset of the marker and its capture group, the inner text without  *)
(* the white space around it.                                              *)
(***************************************************************************)
Filler == [m |-> FALSE, inner |-> <<>>]
Marker(inner) == [m |-> TRUE, inner |-> inner]
IsMarker(item) == item.m

RECURSIVE AllMatches(_, _)
AllMatches(text, i) ==
    IF i > Len(text) THEN <<>>
    ELSE IF IsMarker(text[i])
         THEN <<[start |-> i - 1, flags |-> TrimSpace(text[i].inner)]>>
                  \o AllMatches(text, i + 1)
         ELSE AllMatches(text, i + 1)

FindFirstMatchOnly(text, n) ==
    LET all == AllMatches(text, 1)
    IN  IF Len(all) > 1 THEN SubSeq(all, 1, 1) ELSE all

\* annRe.FindAllStringSubmatchIndex(text, n): the first n matches.
FindAllStringSubmatchIndex(text, n) ==
    LET all == AllMatches(text, 1)
    IN  IF Len(all) > n THEN SubSeq(all, 1, n) ELSE all

(***************************************************************************)
(* extractAnnotation.                                                      *)
(***************************************************************************)
\* The loop over cg.List: the first comment with a marker is kept, a second
\* marker in it or in a later comment is a redundant annotation.
RECURSIVE ScanComments(_, _, _, _, _)
ScanComments(List, i, foundCmt, foundFlags, annPos) ==
    IF i > Len(List)
    THEN [foundCmt |-> foundCmt, flags |-> foundFlags, Pos |-> annPos, err |-> NoErr]
    ELSE LET cmt == List[i]
             matches == FindAllStringSubmatchIndex(cmt.Text, 2)
         IN  IF matches = <<>>
             THEN ScanComments(List, i + 1, foundCmt, foundFlags, annPos)
             ELSE IF foundCmt # 0
             THEN [foundCmt |-> foundCmt, flags |-> foundFlags, Pos |-> annPos,
                   err |-> Err("redundant", annPos, cmt.Pos + matches[1].start, <<>>)]
             ELSE LET pos == cmt.Pos + matches[1].start
                  IN  IF Len(matches) > 1
                      THEN [foundCmt |-> i, flags |-> matches[1].flags, Pos |-> pos,
                            err |-> Err("redundant", pos, cmt.Pos + matches[2].start, <<>>)]
                      ELSE ScanComments(List, i + 1, i, matches[1].flags, pos)

\* The loop over the split flag text: ann.Flags when the loop ends, or the
\* first token that is no valid flag.
RECURSIVE ParseFlags(_, _, _)
ParseFlags(toks, k, flags) ==
    IF k > Len(toks) THEN [Flags |-> flags, bad |-> <<>>, isBad |-> FALSE]
    ELSE LET flag == TrimSpace(toks[k])
         IN  IF Len(flag) = 0 THEN ParseFlags(toks, k + 1, flags)
             ELSE IF ~IsValidFlag(flag)
                  THEN [Flags |-> flags, bad |-> flag, isBad |-> TRUE]
                  ELSE ParseFlags(toks, k + 1, flags \cup {flag[1]})

SpawnQueueConflict(Flags) == annSpawn \in Flags /\ annQueue \in Flags

WaitNeverAlone(Flags) == FALSE

WaitAlone(Flags) == annWait \in Flags /\ ~(annSpawn \in Flags \/ annQueue \in Flags)

\* The result: ok says that an annotation is returned, err.kind # "" that an
\* error is; Flags is ann.Flags as the function leaves it.
extractAnnotation(group) ==
    LET scan == ScanComments(group.List, 1, 0, <<>>, 0)
        none == [ok |-> FALSE, ann |-> NoAnn, err |-> NoErr, Flags |-> {}]
    IN  IF scan.err.kind # "" THEN [none EXCEPT !.err = scan.err]
        ELSE IF scan.foundCmt = 0 THEN none
        ELSE LET parsed == ParseFlags(Split(scan.flags, annSep), 1, {})
             IN  IF parsed.isBad
                 THEN [none EXCEPT !.err = Err("invalid flag", scan.Pos, 0, parsed.bad),
                                   !.Flags = parsed.Flags]
                 ELSE IF SpawnQueueConflict(parsed.Flags)
                 THEN [none EXCEPT !.err = Err("coexist", scan.Pos, 0, <<annSpawn, annQueue>>),
                                   !.Flags = parsed.Flags]
                 ELSE IF WaitAlone(parsed.Flags)
                 THEN [none EXCEPT !.err = Err("wait alone", scan.Pos, 0, <<annWait>>),
                                   !.Flags = parsed.Flags]
                 ELSE [ok |-> TRUE, ann |-> [Pos |-> scan.Pos, Flags |-> parsed.Flags],
                       err |-> NoErr, Flags |-> parsed.Flags]

(***************************************************************************)
(* The program graph the loader supplies: packages, the type declarations  *)
(* of each, and type expressions.  An identifier node carries what the     *)
(* parser and the type checker know of it: obj says that ident.Obj is set  *)
(* (the name is declared in the same source unit), uses is the entry of    *)
(* TypesInfo.Uses (ok FALSE: none), with the kind of the object, the path  *)
(* of its package ("" for a nil package, as of a predeclared type) and,    *)
(* for a package name, the path of the imported package.                   *)
(***************************************************************************)
MainPath == "main"
LibPath == "example.com/lib"
\* Three more packages main imports: one with the default name of lib, and
\* two whose default name is lib1.
OrgLibPath == "example.org/lib"
Lib1Path == "example.org/lib1"
XLib1Path == "example.org/x/lib1"
NilPkg == "<nil>"

NoUse == [ok |-> FALSE, kind |-> "", pkg |-> ""]
Use(kind, pkg) == [ok |-> TRUE, kind |-> kind, pkg |-> pkg]

Ident(id, name, obj, uses) == [k |-> "ident", id |-> id, name |-> name, obj |-> obj, uses |-> uses]
SelectorExpr(x, sel) == [k |-> "sel", X |-> x, Sel |-> sel]
ParenExpr(x) == [k |-> "paren", X |-> x]
FuncType(params) == [k |-> "func", Params |-> params, Results |-> <<>>]
InterfaceType(methods) == [k |-> "iface", Methods |-> methods]
StructType == [k |-> "struct"]
NilExpr == [k |-> "nil"]

Field(names, type) == [Names |-> names, Type |-> type]

\* An identifier node is known by the position of the declaration it is
\* written in (0 in package lib) and its place there.
NoNode == <<>>

\* Predeclared types: the object has no package.
IntT(at, place) == Ident(<<at, place>>, "int", FALSE, Use("TypeName", ""))
\* lib.Conn and lib.Closer written in package main.
LibConn(at, place) ==
    SelectorExpr(Ident(<<at, place, "X">>, "lib", FALSE, Use("PkgName", LibPath)),
                 Ident(<<at, place, "Sel">>, "Conn", FALSE, Use("TypeName", LibPath)))
LibCloser(at, place) ==
    SelectorExpr(Ident(<<at, place, "X">>, "lib", FALSE, Use("PkgName", LibPath)),
                 Ident(<<at, place, "Sel">>, "Closer", FALSE, Use("TypeName", LibPath)))

\* The other packages, imported in package main under the names olib, lib1
\* and xlib1: olib.Conn, lib1.Conn and xlib1.Conn.
OrgLibConn(at, place) ==
    SelectorExpr(Ident(<<at, place, "X">>, "olib", FALSE, Use("PkgName", OrgLibPath)),
                 Ident(<<at, place, "Sel">>, "Conn", FALSE, Use("TypeName", OrgLibPath)))
Lib1Conn(at, place) ==
    SelectorExpr(Ident(<<at, place, "X">>, "lib1", FALSE, Use("PkgName", Lib1Path)),
                 Ident(<<at, place, "Sel">>, "Conn", FALSE, Use("TypeName", Lib1Path)))
XLib1Conn(at, place) ==
    SelectorExpr(Ident(<<at, place, "X">>, "xlib1", FALSE, Use("PkgName", XLib1Path)),
                 Ident(<<at, place, "Sel">>, "Conn", FALSE, Use("TypeName", XLib1Path)))

\* An identifier of package main that names a type declared in the same
\* unit, the predeclared interface error, and a name the type checker could
\* not bind.
Local(at, place, name) == Ident(<<at, place>>, name, TRUE, Use("TypeName", MainPath))
ErrorT(at, place) == Ident(<<at, place>>, "error", FALSE, Use("TypeName", ""))
Missing(at, place) == Ident(<<at, place>>, "Missing", FALSE, NoUse)

Method(name, params) == Field(<<name>>, FuncType(params))
Embedded(type) == Field(<<>>, type)

\* Package example.com/lib:
\*   type Conn struct{}
\*   type Closer interface { Close(c Conn); secret() }
\*   type Hidden interface { secret() }
LibTypes ==
    [Conn |-> StructType,
     Closer |-> InterfaceType(<<
        Field(<<"Close">>, FuncType(<<Field(<<"c">>,
                  Ident(<<0, "Close.c">>, "Conn", TRUE, Use("TypeName", LibPath)))>>)),
        Field(<<"secret">>, FuncType(<<>>))>>),
     Hidden |-> InterfaceType(<<Method("secret", <<>>)>>)]

\* The declarations of package main that carry no annotation, written in
\* the unit that names them:
\*   type D interface { M() }
\*   type A interface { D; N() }
\*   type B interface { D; Open(c lib.Conn); M() }
\*   type Bad interface { N(); lib.Conn }
\*   type Alias = (lib.Closer)
\*   type FnAlias = func(c lib.Conn)
\* and, in a package that does not compile, declarations that lead back to
\* themselves:
\*   type Loop Loop
\*   type Ping Pong
\*   type Pong (Ping)
\*   type Self interface { Self }
\*   type Even interface { M(); Odd }
\*   type Odd interface { Even }
MainTypes ==
    [D |-> InterfaceType(<<Method("M", <<>>)>>),
     A |-> InterfaceType(<<Embedded(Local(-1, "A.D", "D")), Method("N", <<>>)>>),
     B |-> InterfaceType(<<Embedded(Local(-1, "B.D", "D")),
                           Method("Open", <<Field(<<"c">>, LibConn(-1, "B.Open.c"))>>),
                           Method("M", <<>>)>>),
     Bad |-> InterfaceType(<<Method("N", <<>>), Embedded(LibConn(-1, "Bad.Conn"))>>),
     Alias |-> ParenExpr(LibCloser(-1, "Alias")),
     FnAlias |-> FuncType(<<Field(<<"c">>, LibConn(-1, "FnAlias.c"))>>),
     Loop |-> Local(-1, "Loop", "Loop"),
     Ping |-> Local(-1, "Ping", "Pong"),
     Pong |-> ParenExpr(Local(-1, "Pong", "Ping")),
     Self |-> InterfaceType(<<Embedded(Local(-1, "Self.Self", "Self"))>>),
     Even |-> InterfaceType(<<Method("M", <<>>), Embedded(Local(-1, "Even.Odd", "Odd"))>>),
     Odd |-> InterfaceType(<<Embedded(Local(-1, "Odd.Even", "Even"))>>)]

\* pkg.Imports of each package and the exported top-level type names of each
\* (identMap), with the type each is declared as.
PkgImports(pkg) == IF pkg = MainPath THEN {LibPath, OrgLibPath, Lib1Path, XLib1Path} ELSE {}
PkgExported(pkg) ==
    CASE pkg = LibPath -> {"Conn", "Closer", "Hidden"}
      [] pkg \in {OrgLibPath, Lib1Path, XLib1Path} -> {"Conn"}
      [] OTHER -> {}
PkgDeclType(pkg, name) ==
    CASE pkg = LibPath -> LibTypes[name]
      [] pkg = MainPath -> MainTypes[name]
      [] pkg \in {OrgLibPath, Lib1Path, XLib1Path} -> StructType
      [] OTHER -> NilExpr
PkgDefaultName(path) ==
    CASE path \in {LibPath, OrgLibPath} -> "lib"
      [] path \in {Lib1Path, XLib1Path} -> "lib1"
      [] OTHER -> path

\* ast.Ident.IsExported for the method names of the graph: those that start
\* with an upper-case letter.
IsExported(name) == name \in {"Close", "Open", "Login", "Logout", "M", "N"}

(***************************************************************************)
(* typeResolver.Resolve.  st is "ok" (a terminal expression with its       *)
(* package), "nil" (nil, nil) or "panic" (a nil dereference: Path() of a   *)
(* nil *types.Package, or TypesInfo of a nil *packages.Package).           *)
(***************************************************************************)
ResolvedInMain(st, pkg, typ) == [st |-> st, pkg |-> MainPath, typ |-> typ]
Resolved(st, pkg, typ) == [st |-> st, pkg |-> pkg, typ |-> typ]

RECURSIVE Resolve(_, _)
Resolve(pkg, typ) ==
    CASE typ.k = "ident" ->
            IF typ.obj
            THEN Resolve(pkg, PkgDeclType(pkg, typ.name))
            ELSE IF ~typ.uses.ok THEN Resolved("nil", NilPkg, NilExpr)
            ELSE IF typ.uses.pkg = "" THEN Resolved("panic", NilPkg, NilExpr)
            ELSE LET depPkg == IF typ.uses.pkg \in PkgImports(pkg)
                               THEN typ.uses.pkg ELSE NilPkg
                 IN  IF depPkg = NilPkg THEN Resolved("panic", NilPkg, NilExpr)
                     ELSE IF typ.name \notin PkgExported(depPkg)
                     THEN Resolved("nil", NilPkg, NilExpr)
                     ELSE Resolve(depPkg, PkgDeclType(depPkg, typ.name))
      [] typ.k = "sel" -> Resolve(pkg, typ.Sel)
      [] typ.k = "paren" -> Resolve(pkg, typ.X)
      [] OTHER -> Resolved("ok", pkg, typ)

(***************************************************************************)
(* Import records and the visitor that fills them while a signature is     *)
(* extracted.  Imports is par.Imports, a map from package path to record;  *)
(* PkgIdents and TypeIdents list identifier nodes by their id.             *)
(***************************************************************************)
NoImports == [p \in {} |-> 0]

importRecord(imports, path) ==
    IF path \in DOMAIN imports THEN imports
    ELSE imports @@ (path :> [Path |-> path, Name |-> PkgDefaultName(path), Alias |-> "",
                              PkgIdents |-> <<>>, TypeIdents |-> <<>>])

\* realNode != vis.LastSel
NeverLastSel(vis, node) == FALSE
IsLastSel(vis, node) == node.id = vis.LastSel

\* typeVisitor.Visit: vis is [Imports, LastSel].
Visit(vis, node) ==
    CASE node.k = "ident" ->
            IF ~node.uses.ok THEN vis
            ELSE IF node.uses.kind = "PkgName"
            THEN LET imp == importRecord(vis.Imports, node.uses.pkg)
                 IN  [vis EXCEPT !.Imports =
                        [imp EXCEPT ![node.uses.pkg].PkgIdents =
                                        Append(@, [id |-> node.id, name |-> node.name])]]
            ELSE IF /\ node.uses.kind = "TypeName"
                    /\ node.uses.pkg # ""
                    /\ node.uses.pkg # MainPath
                    /\ ~IsLastSel(vis, node)
            THEN LET imp == importRecord(vis.Imports, node.uses.pkg)
                 IN  [vis EXCEPT !.Imports =
                        [imp EXCEPT ![node.uses.pkg].TypeIdents =
                                        Append(@, [id |-> node.id, name |-> node.name])]]
            ELSE vis
      [] node.k = "sel" -> [vis EXCEPT !.LastSel = node.Sel.id]
      [] OTHER -> vis

\* ast.Walk(vis, node): the node, then its children in source order.
RECURSIVE Walk(_, _)
Walk(vis, node) ==
    LET v == Visit(vis, node)
    IN  CASE node.k = "sel" -> Walk(Walk(v, node.X), node.Sel)
          [] node.k = "paren" -> Walk(v, node.X)
          [] OTHER -> v

\* The loops of extractFunc over the parameter and result groups: a new
\* visitor for each group's type.
RECURSIVE WalkFields(_, _, _)
WalkFields(imports, list, i) ==
    IF i > Len(list) THEN imports
    ELSE WalkFields(Walk([Imports |-> imports, LastSel |-> NoNode], list[i].Type).Imports,
                    list, i + 1)

\* extractFunc leaving the name of the signature out.
extractFuncUnnamed(imports, pkg, name, typ) ==
    [rec |-> [Name |-> "", Params |-> typ.Params, Returns |-> typ.Results],
     Imports |-> WalkFields(WalkFields(imports, typ.Params, 1), typ.Results, 1)]

extractFunc(imports, pkg, name, typ) ==
    [rec |-> [Name |-> name, Params |-> typ.Params, Returns |-> typ.Results],
     Imports |-> WalkFields(WalkFields(imports, typ.Params, 1), typ.Results, 1)]

(***************************************************************************)
(* parser.extractInterface (with the set of method names already seen).    *)
(* st is "ok", "fail" (nil, false) or "panic".                             *)
(***************************************************************************)
\* m.Names[0].IsExported() || pkg == par.Pkg
ExportedOnly(pkg, name) == IsExported(name)
Visible(pkg, name) == IsExported(name) \/ pkg = MainPath

\* mthdNames[frec.Name]
NeverSeen(mthdNames, name) == FALSE
Seen(mthdNames, name) == name \in mthdNames

RECURSIVE extractInterfaceFrom(_, _, _, _, _, _)
RECURSIVE extractInterface(_, _, _, _)
extractInterface(imports, pkg, typ, mthdNames) ==
    extractInterfaceFrom(imports, pkg, typ, mthdNames, 1, <<>>)

\* The loop over typ.Methods.List from entry i on; a holds par.Imports,
\* mthdNames and res as they are when the iteration starts.
extractInterfaceFrom(imports, pkg, typ, mthdNames, i, res) ==
    Strict(LAMBDA a :
        IF i > Len(typ.Methods)
        THEN [st |-> "ok", res |-> a.res, Imports |-> a.imports, mthdNames |-> a.seen]
        ELSE IF Len(typ.Methods[i].Names) > 0
        THEN IF Visible(pkg, typ.Methods[i].Names[1])
             THEN Strict(LAMBDA f :
                      IF ~Seen(a.seen, f.rec.Name)
                      THEN extractInterfaceFrom(f.Imports, pkg, typ,
                               a.seen \cup {f.rec.Name}, i + 1, Append(a.res, f.rec))
                      ELSE extractInterfaceFrom(f.Imports, pkg, typ, a.seen, i + 1, a.res),
                      extractFunc(a.imports, pkg, typ.Methods[i].Names[1], typ.Methods[i].Type))
             ELSE extractInterfaceFrom(a.imports, pkg, typ, a.seen, i + 1, a.res)
        ELSE Strict(LAMBDA emb :
                 IF emb.st = "panic"
                 THEN [st |-> "panic", res |-> <<>>, Imports |-> a.imports,
                       mthdNames |-> a.seen]
                 ELSE IF emb.st = "nil" \/ emb.typ.k # "iface"
                 THEN [st |-> "fail", res |-> <<>>, Imports |-> a.imports,
                       mthdNames |-> a.seen]
                 ELSE Strict(LAMBDA embRes :
                          IF embRes.st # "ok"
                          THEN [embRes EXCEPT !.res = <<>>]
                          ELSE extractInterfaceFrom(embRes.Imports, pkg, typ,
                                   embRes.mthdNames, i + 1, a.res \o embRes.res),
                          extractInterface(a.imports, emb.pkg, emb.typ, a.seen)),
                 Resolve(pkg, typ.Methods[i].Type)),
        [imports |-> imports, seen |-> mthdNames, res |-> res])

(***************************************************************************)
(* parser.ExtractEvent for a type spec ts = [Doc, Name, NamePos, Type] and *)
(* the position of its annotation.  st is "ok" (an eventRec), "err" (an    *)
(* error) or "panic".                                                      *)
(***************************************************************************)
NoEvent == [Name |-> <<>>, NamePos |-> 0, Funcs |-> <<>>]

\* len(funcs) == 0
AlwaysUsable(funcs) == FALSE
NoUsableMethods(funcs) == Len(funcs) = 0

ExtractEvent(imports, annPos, ts) ==
    LET out(st, ev, err, imp) == [st |-> st, ev |-> ev, err |-> err, Imports |-> imp]
        unresolved == Err("cannot resolve", ts.NamePos, 0, ts.Name)
    IN  Strict(LAMBDA under :
            IF under.st = "panic" THEN out("panic", NoEvent, NoErr, imports)
            ELSE IF under.st = "nil" THEN out("err", NoEvent, unresolved, imports)
            ELSE IF under.typ.k = "func"
            THEN Strict(LAMBDA f :
                     out("ok", [Name |-> ts.Name, NamePos |-> ts.NamePos, Funcs |-> <<f.rec>>],
                         NoErr, f.Imports),
                     extractFunc(imports, under.pkg, "", under.typ))
            ELSE IF under.typ.k = "iface"
            THEN Strict(LAMBDA r :
                     IF r.st = "panic" THEN out("panic", NoEvent, NoErr, r.Imports)
                     ELSE IF r.st = "fail" THEN out("err", NoEvent, unresolved, r.Imports)
                     ELSE IF NoUsableMethods(r.res)
                     THEN out("err", NoEvent,
                              Err("no usable methods", ts.NamePos, 0, ts.Name), r.Imports)
                     ELSE out("ok", [Name |-> ts.Name, NamePos |-> ts.NamePos,
                                     Funcs |-> r.res],
                              NoErr, r.Imports),
                     extractInterface(imports, under.pkg, under.typ, {}))
            ELSE out("err", NoEvent, Err("apply only", annPos, 0, <<>>), imports),
            Resolve(MainPath, ts.Type))

(***************************************************************************)
(* Source units.  A unit is written as a sequence of elements in source    *)
(* order: a free comment ("C"), a func declaration ("F"), the opening of a *)
(* type group ("G") or a type spec ("T"), each with the comment that       *)
(* stands right before it (c, "" for none).  A type spec that follows a    *)
(* group opening, with only type specs and comments between, is a member   *)
(* of the group and c is its own doc comment; any other type spec is a     *)
(* declaration of its own and c is the doc comment of the declaration.     *)
(* file.Comments and file.Decls are derived as go/parser builds them.      *)
(***************************************************************************)
flagHandlerSuffix == <<"H", "a", "n", "d", "l", "e", "r">>

HasSuffix(str, suffix) ==
    /\ Len(str) >= Len(suffix)
    /\ SubSeq(str, Len(str) - Len(suffix) + 1, Len(str)) = suffix

\* The comments of the units: a marker-free one, @evon(lock), @evon( spawn),
\* @evon(wait), which is malformed, and @evon(spawn, lock).
CmtLines(c) ==
    CASE c = "plain" -> <<(<<Filler>>)>>
      [] c = "lock" -> <<(<<Filler>>), (<<Filler, Marker(<<annLock>>), Filler>>)>>
      [] c = "spawn" -> <<(<<Marker(<<" ", annSpawn>>)>>)>>
      [] c = "bad" -> <<(<<Filler, Marker(<<annWait>>)>>)>>
      [] c = "both" -> <<(<<Marker(<<annSpawn, annSep, " ", annLock>>)>>)>>
      [] OTHER -> <<>>

RECURSIVE LinesLen(_)
LinesLen(lines) == IF lines = <<>> THEN 0 ELSE Len(Head(lines)) + LinesLen(Tail(lines))

RECURSIVE LinesAt(_, _)
LinesAt(lines, pos) ==
    IF lines = <<>> THEN <<>>
    ELSE <<[Pos |-> pos, Text |-> Head(lines)]>> \o LinesAt(Tail(lines), pos + Len(Head(lines)))

\* The type specs of the units, by kind: the declared name and type.
\* The kinds written for the shapes of interfaces and of chains of names;
\* the name of such a type is the kind, as one letter, before the suffix.
ShapeKinds ==
    {"diamond", "shadow", "hidden", "empty", "embstruct", "embmissing", "emberror",
     "deepfail", "alias", "fnalias", "libconn", "unres", "ofn", "fn1", "fnname"}

\* The kinds of type spec whose type leads back to itself: by a chain of
\* names (type loopHandler Loop, type pingHandler Ping) or by embedding
\* (type selfHandler interface { Self }, type evenHandler Even).
CycleKinds == {"loop", "ping", "self", "even"}

\* The kinds of type spec that name a type the import table of the package
\* does not lead to: the predeclared error (type predeclaredHandler error)
\* and a type declared in another unit of package main, whose identifier
\* the parser leaves without an object (type otherunitHandler D).
OutsideKinds == {"predeclared", "otherunit"}

SpecName(kind) ==
    CASE kind = "fn" -> <<"L", "o", "g", "i", "n">> \o flagHandlerSuffix
      [] kind = "nosuffix" -> <<"L", "o", "g", "i", "n">>
      [] kind = "only" -> flagHandlerSuffix
      [] kind = "bare" -> flagHandlerSuffix
      [] kind = "struct" -> <<"D">> \o flagHandlerSuffix
      [] kind = "int" -> <<"I">> \o flagHandlerSuffix
      [] kind = "closer" -> <<"C">> \o flagHandlerSuffix
      [] kind \in ShapeKinds \cup CycleKinds \cup OutsideKinds -> <<kind>> \o flagHandlerSuffix
      [] OTHER -> <<>>

SpecType(kind, at) ==
    CASE kind = "fn" ->
            FuncType(<<Field(<<"uid">>, IntT(at, "uid")), Field(<<"c">>, LibConn(at, "c"))>>)
      [] kind = "nosuffix" -> FuncType(<<>>)
      [] kind = "only" -> InterfaceType(<<>>)
      [] kind = "bare" -> FuncType(<<>>)
      [] kind = "struct" -> StructType
      [] kind = "int" -> IntT(at, "type")
      [] kind = "closer" -> LibCloser(at, "type")
      \* interface { A; B }
      [] kind = "diamond" ->
            InterfaceType(<<Embedded(Local(at, "A", "A")), Embedded(Local(at, "B", "B"))>>)
      \* interface { lib.Closer; secret(); Close(c olib.Conn) }
      [] kind = "shadow" ->
            InterfaceType(<<Embedded(LibCloser(at, "emb")), Method("secret", <<>>),
                            Method("Close", <<Field(<<"c">>, OrgLibConn(at, "Close.c"))>>)>>)
      [] kind = "hidden" ->
            SelectorExpr(Ident(<<at, "type", "X">>, "lib", FALSE, Use("PkgName", LibPath)),
                         Ident(<<at, "type", "Sel">>, "Hidden", FALSE, Use("TypeName", LibPath)))
      [] kind = "empty" -> InterfaceType(<<>>)
      \* interface { D; lib.Conn }
      [] kind = "embstruct" ->
            InterfaceType(<<Embedded(Local(at, "D", "D")), Embedded(LibConn(at, "emb"))>>)
      \* interface { M(); Missing }
      [] kind = "embmissing" ->
            InterfaceType(<<Method("M", <<>>), Embedded(Missing(at, "emb"))>>)
      \* interface { error }
      [] kind = "emberror" -> InterfaceType(<<Embedded(ErrorT(at, "emb"))>>)
      \* interface { A; Bad }
      [] kind = "deepfail" ->
            InterfaceType(<<Embedded(Local(at, "A", "A")),
                            Embedded(Local(at, "Bad", "Bad"))>>)
      [] kind = "alias" -> Local(at, "type", "Alias")
      [] kind = "fnalias" -> ParenExpr(Local(at, "type", "FnAlias"))
      [] kind = "libconn" -> LibConn(at, "type")
      [] kind = "unres" -> ParenExpr(Missing(at, "type"))
      [] kind = "ofn" -> FuncType(<<Field(<<"c">>, OrgLibConn(at, "c"))>>)
      [] kind = "fn1" ->
            FuncType(<<Field(<<"c">>, Lib1Conn(at, "c")), Field(<<"d">>, XLib1Conn(at, "d"))>>)
      [] kind = "fnname" -> Local(at, "type", "FnAlias")
      [] kind = "predeclared" -> ErrorT(at, "type")
      [] kind = "otherunit" -> Ident(<<at, "type">>, "D", FALSE, Use("TypeName", MainPath))
      [] kind = "loop" -> Local(at, "type", "Loop")
      [] kind = "ping" -> Local(at, "type", "Ping")
      [] kind = "self" -> InterfaceType(<<Embedded(Local(at, "embedded", "Self"))>>)
      [] kind = "even" -> Local(at, "type", "Even")
      [] OTHER -> NilExpr

Elem(k, c, kind) == [k |-> k, c |-> c, kind |-> kind]

ElemLen(e) == LinesLen(CmtLines(e.c)) + (IF e.k = "C" THEN 0 ELSE 1)

RECURSIVE FileLen(_)
FileLen(file) == IF file = <<>> THEN 0 ELSE ElemLen(Head(file)) + FileLen(Tail(file))

\* The offset at which element i of a unit starts, the unit starting at base.
ElemPos(file, i, base) == base + FileLen(SubSeq(file, 1, i - 1))

\* The position of the declared name of element i.
NamePosOf(file, i, base) == ElemPos(file, i, base) + LinesLen(CmtLines(file[i].c))

\* A comment group is known by the index of its element; 0 is the nil group.
DocOf(file, i) == IF file[i].c = "" THEN 0 ELSE i

CommentGroup(file, i, base) == [List |-> LinesAt(CmtLines(file[i].c), ElemPos(file, i, base))]

\* file.Comments: the indices of the elements that carry a comment.
Comments(file) == SelectSeq([i \in 1..Len(file) |-> i], LAMBDA i : file[i].c # "")

\* The first element after i that ends the group opened at i.
RECURSIVE GroupEnd(_, _)
GroupEnd(file, j) ==
    IF j > Len(file) \/ file[j].k \notin {"T", "C"} THEN j ELSE GroupEnd(file, j + 1)

TypeSpec(file, i, doc, base) ==
    [Doc |-> doc, Name |-> SpecName(file[i].kind), NamePos |-> NamePosOf(file, i, base),
     Type |-> SpecType(file[i].kind, NamePosOf(file, i, base)), elem |-> i]

\* file.Decls
RECURSIVE Decls(_, _, _)
Decls(file, i, base) ==
    IF i > Len(file) THEN <<>>
    ELSE CASE file[i].k = "C" -> Decls(file, i + 1, base)
           [] file[i].k = "F" ->
                <<[Tok |-> "func", Doc |-> DocOf(file, i), Specs |-> <<>>]>>
                    \o Decls(file, i + 1, base)
           [] file[i].k = "G" ->
                LET end == GroupEnd(file, i + 1)
                    members == SelectSeq([j \in 1..(end - i - 1) |-> i + j],
                                         LAMBDA j : file[j].k = "T")
                IN  <<[Tok |-> "type", Doc |-> DocOf(file, i),
                       Specs |-> [n \in 1..Len(members) |->
                                     TypeSpec(file, members[n], DocOf(file, members[n]), base)]]>>
                        \o Decls(file, end, base)
           [] file[i].k = "T" ->
                <<[Tok |-> "type", Doc |-> DocOf(file, i),
                   Specs |-> <<TypeSpec(file, i, 0, base)>>]>>
                    \o Decls(file, i + 1, base)

\* The type declarations of a unit: the declarations the loop over
\* file.Decls does not skip.
TypeDecls(file, base) == SelectSeq(Decls(file, 1, base), LAMBDA d : d.Tok = "type")

(***************************************************************************)
(* The parser and the two forms of parser.ParseFile.  A run state S holds  *)
(* par, the parser; scanLog, the comment groups handed to                  *)
(* extractAnnotation so far (by position); bindLog, the calls of           *)
(* ExtractEvent so far; panicked, whether a call has panicked.             *)
(***************************************************************************)
newParser ==
    [Errors |-> <<>>, Decls |-> <<>>, Imports |-> NoImports,
     NeedSync |-> FALSE, NeedSyncLocal |-> FALSE,
     ImportList |-> <<>>, PkgNameSet |-> {}]

SuffixOnly(name) == ~HasSuffix(name, flagHandlerSuffix)
LengthOnly(name) == Len(name) = Len(flagHandlerSuffix)
NamingViolation(name) ==
    ~HasSuffix(name, flagHandlerSuffix) \/ Len(name) = Len(flagHandlerSuffix)

NamingError(ts) == Err("naming", ts.NamePos, 0, ts.Name)

AddError(S, err) == [S EXCEPT !.par.Errors = Append(@, err)]

BindEntry(ts, ann, named, st) ==
    [NamePos |-> ts.NamePos, Name |-> ts.Name, ann |-> ann, namingError |-> named, st |-> st]

\*---------------------------------------------------------------------------
\* The annotation-stack form (generate.go:409-488).

\* The first loop: every comment group of the unit.
RECURSIVE StackScan(_, _, _, _)
StackScan(file, base, i, S0) ==
    Strict(LAMBDA S :
        LET cmts == Comments(file)
        IN  IF i > Len(cmts) THEN S
            ELSE StackScan(file, base, i + 1,
                   Strict(LAMBDA r :
                       LET S1 == [S EXCEPT !.scanLog = Append(@, ElemPos(file, cmts[i], base))]
                           local == S.par.NeedSyncLocal \/ annWait \in r.ann.Flags
                       IN  IF r.err.kind # "" THEN AddError(S1, r.err)
                           ELSE IF ~r.ok THEN S1
                           ELSE [S1 EXCEPT
                                   !.anns = Append(@, [Decl |-> [Ann |-> r.ann, Events |-> <<>>],
                                                       Visited |-> FALSE, cg |-> cmts[i]]),
                                   !.par.NeedSyncLocal = local,
                                   !.par.NeedSync = local \/ annLock \in r.ann.Flags],
                       extractAnnotation(CommentGroup(file, cmts[i], base)))),
        S0)

\* cmtAnns[doc]: the index in anns of the record of comment group doc, 0 for
\* none.
cmtAnns(anns, doc) ==
    IF \E n \in 1..Len(anns) : anns[n].cg = doc
    THEN CHOOSE n \in 1..Len(anns) : anns[n].cg = doc
    ELSE 0

\* The annotation a spec is bound to: the top of its stack.
bottomOf(innerStack) == innerStack[1]
curAnnOf(innerStack) == innerStack[Len(innerStack)]

\* One iteration of the loop over gd.Specs.
StackBindSpec(gdDoc, ts, S0) ==
    Strict(LAMBDA S :
        LET outer == cmtAnns(S.anns, gdDoc)
            own == cmtAnns(S.anns, ts.Doc)
            outerStack == IF outer # 0 THEN <<outer>> ELSE <<>>
            innerStack == IF own # 0 THEN Append(outerStack, own) ELSE outerStack
        IN  IF Len(innerStack) = 0 THEN S
            ELSE LET named == NamingViolation(ts.Name)
                     S1 == IF named THEN AddError(S, NamingError(ts)) ELSE S
                     curAnn == curAnnOf(innerStack)
                     ann == S.anns[curAnn].Decl.Ann
                 IN  Strict(LAMBDA r :
                         LET S2 == [S1 EXCEPT
                                      !.par.Imports = r.Imports,
                                      !.bindLog = Append(@, BindEntry(ts, ann, named, r.st))]
                         IN  IF r.st = "panic" THEN [S2 EXCEPT !.panicked = TRUE]
                             ELSE Strict(LAMBDA S3 :
                                      [S3 EXCEPT !.anns =
                                          [n \in DOMAIN S3.anns |->
                                              IF n \in Range(innerStack)
                                              THEN [S3.anns[n] EXCEPT !.Visited = TRUE]
                                              ELSE S3.anns[n]]],
                                      IF r.st = "err" THEN AddError(S2, r.err)
                                      ELSE [S2 EXCEPT
                                              !.anns[curAnn].Decl.Events = Append(@, r.ev)]),
                         ExtractEvent(S.par.Imports, ann.Pos, ts)),
        S0)

RECURSIVE StackBindSpecs(_, _, _, _)
StackBindSpecs(gd, m, S0, dummy) ==
    Strict(LAMBDA S :
        IF S.panicked \/ m > Len(gd.Specs) THEN S
        ELSE StackBindSpecs(gd, m + 1, StackBindSpec(gd.Doc, gd.Specs[m], S), dummy),
        S0)

\* The second loop: the type declarations of the unit.
RECURSIVE StackBind(_, _, _)
StackBind(decls, n, S0) ==
    Strict(LAMBDA S :
        IF S.panicked \/ n > Len(decls) THEN S
        ELSE StackBind(decls, n + 1, StackBindSpecs(decls[n], 1, S, 0)),
        S0)

\* The third loop: an annotation no type spec was bound to is an error, any
\* other one is a declaration record.
NeverUnbound(rec) == FALSE
Unbound(rec) == ~rec.Visited

RECURSIVE StackCollect(_, _)
StackCollect(n, S0) ==
    Strict(LAMBDA S :
        IF n > Len(S.anns) THEN S
        ELSE IF Unbound(S.anns[n])
        THEN StackCollect(n + 1, AddError(S, Err("apply only", S.anns[n].Decl.Ann.Pos, 0, <<>>)))
        ELSE StackCollect(n + 1, [S EXCEPT !.par.Decls = Append(@, S.anns[n].Decl)]),
        S0)

ParseFileStack(file, base, S) ==
    Strict(LAMBDA S2 : IF S2.panicked THEN S2 ELSE StackCollect(1, S2),
           StackBind(TypeDecls(file, base), 1,
                     StackScan(file, base, 1, [S EXCEPT !.anns = <<>>])))

\*---------------------------------------------------------------------------
\* The cursor form (main.go:384-443).  S.cgIdx is the cursor into
\* file.Comments, counted from 0 as in the source.

\* scanCmt(cur): the run state after the call and the annotation returned
\* (has = FALSE for nil).
RECURSIVE scanCmtLoop(_, _, _, _)
scanCmtLoop(file, base, cur, S0) ==
    Strict(LAMBDA S :
        LET cmts == Comments(file)
        IN  IF ~(S.cgIdx < Len(cmts)) THEN [S |-> S, has |-> FALSE, ann |-> NoAnn]
            ELSE LET nextCg == cmts[S.cgIdx + 1]
                 IN  Strict(LAMBDA r :
                         LET S1 == [S EXCEPT !.cgIdx = @ + 1,
                                             !.scanLog = Append(@, ElemPos(file, nextCg, base))]
                             S2 == IF r.err.kind # "" THEN AddError(S1, r.err)
                                   ELSE IF r.ok /\ nextCg # cur
                                   THEN AddError(S1, Err("apply only", r.ann.Pos, 0, <<>>))
                                   ELSE S1
                         IN  IF nextCg = cur THEN [S |-> S2, has |-> r.ok, ann |-> r.ann]
                             ELSE scanCmtLoop(file, base, cur, S2),
                         extractAnnotation(CommentGroup(file, nextCg, base))),
        S0)

scanCmt(file, base, cur, S) ==
    IF cur = 0 THEN [S |-> S, has |-> FALSE, ann |-> NoAnn]
    ELSE scanCmtLoop(file, base, cur, S)

\* One iteration of the loop over gd.Specs.
CursorBindSpec(file, base, grp, ts, S) ==
    Strict(LAMBDA own :
        LET has == own.has \/ grp.has
            ann == IF own.has THEN own.ann ELSE grp.ann
        IN  IF ~has THEN own.S
            ELSE LET named == NamingViolation(ts.Name)
                     S1 == IF named THEN AddError(own.S, NamingError(ts)) ELSE own.S
                 IN  Strict(LAMBDA r :
                         LET S2 == [S1 EXCEPT
                                      !.par.Imports = r.Imports,
                                      !.bindLog = Append(@, BindEntry(ts, ann, named, r.st))]
                         IN  IF r.st = "panic" THEN [S2 EXCEPT !.panicked = TRUE]
                             ELSE IF r.st = "err" THEN AddError(S2, r.err)
                             ELSE [S2 EXCEPT
                                     !.par.Decls = Append(@, [Ann |-> ann, Event |-> r.ev]),
                                     !.par.NeedSync =
                                         @ \/ annLock \in ann.Flags \/ annWait \in ann.Flags],
                         ExtractEvent(own.S.par.Imports, ann.Pos, ts)),
        scanCmt(file, base, ts.Doc, S))

RECURSIVE CursorBindSpecs(_, _, _, _, _, _)
CursorBindSpecs(file, base, grp, gd, m, S0) ==
    Strict(LAMBDA S :
        IF S.panicked \/ m > Len(gd.Specs) THEN S
        ELSE CursorBindSpecs(file, base, grp, gd, m + 1,
                             CursorBindSpec(file, base, grp, gd.Specs[m], S)),
        S0)

\* The loop over the type declarations of the unit.
RECURSIVE CursorBind(_, _, _, _, _)
CursorBind(file, base, decls, n, S0) ==
    Strict(LAMBDA S :
        IF S.panicked \/ n > Len(decls) THEN S
        ELSE Strict(LAMBDA grpAnn :
                        CursorBind(file, base, decls, n + 1,
                                   CursorBindSpecs(file, base, grpAnn, decls[n], 1, grpAnn.S)),
                    scanCmt(file, base, decls[n].Doc, S)),
        S0)

ParseFileCursor(file, base, S) ==
    CursorBind(file, base, TypeDecls(file, base), 1, [S EXCEPT !.cgIdx = 0])

(***************************************************************************)
(* parser.DedupImports (generate.go:603-627).  The names written into      *)
(* identifier nodes are kept in a function from nodes to names, a node     *)
(* outside its domain having the name it was parsed with.                  *)
(***************************************************************************)
\* dedupSet: the names taken so far.  Resolve returns the base name if it is
\* free and the base name with the first free numeric suffix otherwise.
MaxSuffix == 3

newDedupSet == {}

DedupResolve(set, base) ==
    IF base \notin set THEN [name |-> base, set |-> set \cup {base}]
    ELSE LET free == {n \in 1..MaxSuffix : (base \o ToString(n)) \notin set}
             n == CHOOSE k \in free : \A j \in free : k <= j
         IN  [name |-> base \o ToString(n), set |-> set \cup {base \o ToString(n)}]

\* strings.Contains(path, ".") and path < path on the import paths that
\* occur, the latter as the place in the byte-wise order of these paths.
ContainsDot(path) == path \in {LibPath, OrgLibPath, Lib1Path, XLib1Path}

PathOrder == <<LibPath, OrgLibPath, Lib1Path, XLib1Path, MainPath, "sync">>

PathIndex(path) == CHOOSE n \in 1..Len(PathOrder) : PathOrder[n] = path

ImportLess(pi, pj) ==
    LET iDot == ContainsDot(pi)
        jDot == ContainsDot(pj)
    IN  (~iDot /\ jDot) \/ (iDot = jDot /\ PathIndex(pi) < PathIndex(pj))

\* sort.Slice over the records of the map: the order is total on distinct
\* paths, so the result does not depend on the order of iteration.
RECURSIVE SortPaths(_)
SortPaths(paths) ==
    IF paths = {} THEN <<>>
    ELSE LET first == CHOOSE p \in paths : \A q \in paths \ {p} : ImportLess(p, q)
         IN  <<first>> \o SortPaths(paths \ {first})

NameOf(names, ident) == IF ident.id \in DOMAIN names THEN names[ident.id] ELSE ident.name

SetName(names, id, name) ==
    [n \in DOMAIN names \cup {id} |-> IF n = id THEN name ELSE names[n]]

RECURSIVE RewriteTypeIdents(_, _, _, _)
RewriteTypeIdents(names, alias, idents, i) ==
    IF i > Len(idents) THEN names
    ELSE RewriteTypeIdents(
            SetName(names, idents[i].id, alias \o "." \o NameOf(names, idents[i])),
            alias, idents, i + 1)

RECURSIVE RewritePkgIdents(_, _, _, _)
RewritePkgIdents(names, alias, idents, i) ==
    IF i > Len(idents) THEN names
    ELSE RewritePkgIdents(SetName(names, idents[i].id, alias), alias, idents, i + 1)

\* r.Alias = par.PkgNameSet.Resolve(r.Name)
AliasIsName(set, r) == [name |-> r.Name, set |-> set \cup {r.Name}]
ResolveAlias(set, r) == DedupResolve(set, r.Name)

\* The loop over par.ImportList; D holds the import list, the name set and
\* the names of the nodes.
RECURSIVE AssignAliases(_, _)
AssignAliases(D, i) ==
    IF i > Len(D.ImportList) THEN D
    ELSE LET r == D.ImportList[i]
             res == ResolveAlias(D.PkgNameSet, r)
             n1 == RewriteTypeIdents(D.names, res.name, r.TypeIdents, 1)
             n2 == RewritePkgIdents(n1, res.name, r.PkgIdents, 1)
         IN  AssignAliases([D EXCEPT !.ImportList[i].Alias = res.name,
                                     !.PkgNameSet = res.set,
                                     !.names = n2], i + 1)

SyncImport == [Path |-> "sync", Name |-> "sync", Alias |-> "", PkgIdents |-> <<>>, TypeIdents |-> <<>>]

DedupImports(p, names) ==
    LET imports == IF p.NeedSync /\ "sync" \notin DOMAIN p.Imports
                   THEN [q \in DOMAIN p.Imports \cup {"sync"} |->
                            IF q = "sync" THEN SyncImport ELSE p.Imports[q]]
                   ELSE p.Imports
        order == SortPaths(DOMAIN imports)
        list == [n \in 1..Len(order) |-> imports[order[n]]]
        D == AssignAliases([ImportList |-> list, PkgNameSet |-> newDedupSet, names |-> names], 1)
    IN  [par |-> [p EXCEPT !.Imports =
                              [q \in DOMAIN imports |->
                                  D.ImportList[CHOOSE n \in 1..Len(order) : order[n] = q]],
                           !.ImportList = D.ImportList,
                           !.PkgNameSet = D.PkgNameSet],
         names |-> D.names]

(***************************************************************************)
(* Comment groups handed to extractAnnotation.  The first marker of a      *)
(* group is written from a list of tokens (want) in one of several forms   *)
(* and paddings; a layout gives the number of markers of each comment      *)
(* line.                                                                   *)
(***************************************************************************)
VocabSeq == <<annCatch, annLock, annPause, annQueue, annSpawn, annUnusb, annWait>>

SortedFlags(S) == SelectSeq(VocabSeq, LAMBDA f : f \in S)

Forms == {"asc", "desc", "dup", "bogus first", "bogus last", "joined"}
Pads == {"none", "spaces", "empties"}

\* The tokens a writer means: each a non-empty text without commas and
\* without white space at its ends.
WantTokens(S, form) ==
    LET asc == [i \in 1..Cardinality(S) |-> <<SortedFlags(S)[i]>>]
    IN  CASE form = "asc" -> asc
          [] form = "desc" -> Reverse(asc)
          [] form = "dup" -> IF asc = <<>> THEN asc ELSE asc \o <<asc[1]>>
          [] form = "bogus first" -> <<(<<"Lock">>)>> \o asc
          [] form = "bogus last" -> asc \o <<(<<"bogus">>)>>
          [] form = "joined" ->
                IF Len(asc) < 2 THEN asc
                ELSE <<asc[1] \o <<" ">> \o asc[2]>> \o SubSeq(asc, 3, Len(asc))

RECURSIVE Join(_, _)
Join(toks, sep) ==
    IF toks = <<>> THEN <<>>
    ELSE IF Len(toks) = 1 THEN toks[1]
    ELSE toks[1] \o sep \o Join(Tail(toks), sep)

RenderFlags(want, pad) ==
    CASE pad = "none" -> Join(want, <<",">>)
      [] pad = "spaces" ->
            <<" ">> \o Join([i \in 1..Len(want) |-> <<"\t">> \o want[i] \o <<" ">>], <<",">>)
                   \o <<" ", " ">>
      [] pad = "empties" -> <<",", " ">> \o Join(want, <<",", " ", ",">>) \o <<",">>

SmallTexts == {<<>>, <<annLock>>, <<annWait>>, <<"bogus">>}

Layouts == UNION {[1..n -> 0..MaxMarkers] : n \in 1..MaxLines}

RECURSIVE SumSeq(_)
SumSeq(s) == IF s = <<>> THEN 0 ELSE Head(s) + SumSeq(Tail(s))

\* Line i of a group: before each marker a filler, the k-th marker of the
\* group (counted over all lines) holding texts[k].
LineText(layout, i, texts) ==
    LET before == SumSeq(SubSeq(layout, 1, i - 1))
    IN  Concat([j \in 1..layout[i] |-> <<Filler, Marker(texts[before + j])>>]) \o <<Filler>>

RECURSIVE LinePos(_, _, _)
LinePos(layout, i, texts) ==
    IF i = 1 THEN 1
    ELSE LinePos(layout, i - 1, texts) + Len(LineText(layout, i - 1, texts)) + 1

MakeGroup(layout, texts) ==
    [List |-> [i \in 1..Len(layout) |->
                  [Pos |-> LinePos(layout, i, texts), Text |-> LineText(layout, i, texts)]]]

NoGroup == [List |-> <<>>]
NoAnnIn == [want |-> <<>>, layout |-> <<>>, rich |-> FALSE, S |-> {}, form |-> "", pad |-> ""]
NoAnnRes == [ok |-> FALSE, ann |-> NoAnn, err |-> NoErr, Flags |-> {}]

NoNames == [n \in {} |-> ""]

IdleAnn == cg = NoGroup /\ annIn = NoAnnIn /\ annRes = NoAnnRes

IdleParse ==
    /\ variant = ""
    /\ pkgSyntax = <<>>
    /\ fileIdx = 0
    /\ par = newParser
    /\ identNames = NoNames
    /\ scanLog = <<>>
    /\ bindLog = <<>>

NoWalk == [at |-> "idle"]
NoEventYet == [done |-> 0]
IdleWalk == walk = NoWalk /\ ge = NoEventYet

IdleProc ==
    /\ flagShow = FALSE
    /\ pkgErrors = <<>>
    /\ outFile = "absent"
    /\ handle = "none"
    /\ trace = <<>>
    /\ stderr = <<>>
    /\ stdout = <<>>
    /\ status = -1

InitAnn ==
    /\ pc = "ann"
    /\ IdleWalk
    /\ annRes = NoAnnRes
    /\ IdleParse
    /\ IdleProc
    /\ \E layout \in Layouts :
          LET n == SumSeq(layout)
          IN  \/ /\ n = 1
                 /\ \E S \in SUBSET validFlags, form \in Forms, pad \in Pads :
                       LET want == WantTokens(S, form)
                       IN  /\ cg = MakeGroup(layout, <<RenderFlags(want, pad)>>)
                           /\ annIn = [want |-> want, layout |-> layout, rich |-> TRUE,
                                       S |-> S, form |-> form, pad |-> pad]
              \/ /\ n # 1
                 /\ \E first \in SmallTexts, other \in SmallTexts :
                       /\ cg = MakeGroup(layout, [k \in 1..n |-> IF k = 1 THEN first ELSE other])
                       /\ annIn = [NoAnnIn EXCEPT !.layout = layout]

\* extractAnnotation(cg, fset)
ExtractAnnotation ==
    /\ pc = "ann"
    /\ annRes' = extractAnnotation(cg)
    /\ pc' = "ann done"
    /\ UNCHANGED <<walk, ge, cg, annIn, parseVars, procVars>>

NextAnn == ExtractAnnotation

SpecAnn == InitAnn /\ [][NextAnn]_vars

(***************************************************************************)
(* Properties of extractAnnotation.                                        *)
(***************************************************************************)
AnnDone == pc = "ann done"

\* The positions of the markers of a group, as the set of the offsets at
\* which a marker stands.
MarkerPositions(group) ==
    {group.List[i].Pos + (j - 1) :
        <<i, j>> \in {<<a, b>> \in (DOMAIN group.List) \X (1..(2 * MaxMarkers + 1)) :
                         b \in DOMAIN group.List[a].Text /\ group.List[a].Text[b].m}}

MinOf(S) == CHOOSE x \in S : \A y \in S : x <= y

\* C1: for every subset S of the flag vocabulary, a marker whose flags are
\* exactly S is accepted (an annotation and no error) if and only if S does
\* not hold both spawn and queue and does not hold wait without spawn or
\* queue.
C1_FlagSubsetAcceptance ==
    (AnnDone /\ annIn.rich /\ annIn.form \in {"asc", "desc", "dup"}) =>
        ((annRes.ok /\ annRes.err = NoErr)
            <=> (/\ ~({"spawn", "queue"} \subseteq annIn.S)
                 /\ ~("wait" \in annIn.S /\ "spawn" \notin annIn.S /\ "queue" \notin annIn.S)))

C1_Witness ==
    /\ AnnDone /\ annIn.rich /\ annIn.form = "desc"
    /\ annIn.S = {"catch", "queue", "wait"}
    /\ annRes.ok /\ annRes.ann.Flags = annIn.S

\* C2: the flag list is split at commas, each token trimmed and empty tokens
\* ignored; when every remaining token is a vocabulary word the flag set
\* built is exactly the set of those tokens, whatever their order and
\* repetition (none gives the empty set), and it is the flag set of the
\* annotation when one is returned; otherwise the result is an "invalid
\* flag" error naming the first offending token, and no annotation.
C2_TokensToFlagSet ==
    (AnnDone /\ annIn.rich) =>
        LET want == annIn.want
            words == {<<f>> : f \in {"catch", "lock", "pause", "queue", "spawn", "unsub", "wait"}}
            badAt == {i \in 1..Len(want) : want[i] \notin words}
        IN  IF badAt = {}
            THEN /\ annRes.Flags = {want[i][1] : i \in 1..Len(want)}
                 /\ annRes.err.kind # "invalid flag"
                 /\ annRes.ok => annRes.ann.Flags = annRes.Flags
                 /\ (want = <<>>) => (annRes.ok /\ annRes.ann.Flags = {})
            ELSE /\ ~annRes.ok
                 /\ annRes.err.kind = "invalid flag"
                 /\ annRes.err.arg = want[MinOf(badAt)]

C2_Witness ==
    /\ AnnDone /\ annIn.rich /\ annIn.form = "dup" /\ annIn.pad = "spaces"
    /\ annIn.S = {"lock", "unsub"}
    /\ annRes.ok /\ annRes.ann.Flags = {"lock", "unsub"}

\* C3: a comment block with two or more markers, in one comment line or in
\* several, is rejected with a "redundant annotation" error that gives the
\* position of the first marker and the position of the second, and no
\* annotation is returned, whatever the flags of the markers.
C3_RedundantAnnotation ==
    (AnnDone /\ Cardinality(MarkerPositions(cg)) >= 2) =>
        LET first == MinOf(MarkerPositions(cg))
            second == MinOf(MarkerPositions(cg) \ {first})
        IN  /\ ~annRes.ok
            /\ annRes.err.kind = "redundant"
            /\ annRes.err.pos = first
            /\ annRes.err.next = second

C3_Witness ==
    /\ AnnDone /\ annIn.layout = <<1, 1>>
    /\ annRes.err.kind = "redundant" /\ annRes.err.next > annRes.err.pos
    /\ cg.List[1].Text[2].inner = <<"bogus">>

(***************************************************************************)
(* parser.ParsePkg, one call of ParseFile at a time.                       *)
(***************************************************************************)
MaxElems == 3

\* The elements the units of a package are written with.
ParseElems ==
    {Elem("C", "lock", ""), Elem("F", "spawn", ""),
     Elem("G", "", ""), Elem("G", "lock", ""),
     Elem("T", "", "fn"), Elem("T", "spawn", "fn"), Elem("T", "bad", "fn"),
     Elem("T", "spawn", "nosuffix"), Elem("T", "", "only"),
     Elem("T", "spawn", "struct"), Elem("T", "spawn", "int")}

UnitsUpTo(elems, k) == SeqsUpTo(elems, k) \ {<<>>}

\* The packages of at most budget elements: one unit, or a unit and a second
\* one of a single element.
Packages(elems, budget) ==
    {<<u>> : u \in UnitsUpTo(elems, budget)}
        \cup {<<u, <<e>>>> : u \in UnitsUpTo(elems, budget - 1), e \in elems}

\* token.FileSet: each unit starts one past the end of the one before.
RECURSIVE FileBase(_, _)
FileBase(syntax, f) ==
    IF f = 1 THEN 1 ELSE FileBase(syntax, f - 1) + FileLen(syntax[f - 1]) + 1

RunState(p, sl, bl) ==
    [par |-> p, anns |-> <<>>, cgIdx |-> 0, scanLog |-> sl, bindLog |-> bl,
     panicked |-> FALSE, files |-> 0]

ParseFileOf(form, file, base, S) ==
    IF form = "stack" THEN ParseFileStack(file, base, S) ELSE ParseFileCursor(file, base, S)

InitParse ==
    /\ pc = "parse"
    /\ IdleWalk
    /\ variant \in {"stack", "cursor"}
    /\ pkgSyntax \in Packages(ParseElems, MaxElems)
    /\ fileIdx = 0
    /\ par = newParser
    /\ identNames = NoNames
    /\ scanLog = <<>>
    /\ bindLog = <<>>
    /\ IdleAnn
    /\ IdleProc

\* The body of the loop over par.Pkg.Syntax.  A panic ends the program.
ParseFile ==
    /\ pc = "parse"
    /\ fileIdx < Len(pkgSyntax)
    /\ LET f == fileIdx + 1
           S == ParseFileOf(variant, pkgSyntax[f], FileBase(pkgSyntax, f),
                            RunState(par, scanLog, bindLog))
       IN  /\ par' = S.par
           /\ scanLog' = S.scanLog
           /\ bindLog' = S.bindLog
           /\ fileIdx' = f
           /\ pc' = IF S.panicked THEN "panic" ELSE "parse"
    /\ UNCHANGED <<walk, ge, variant, pkgSyntax, identNames, annVars, procVars>>

\* ParsePkg going on to DedupImports with errors collected.
ParsePkgNoReturn ==
    /\ pc = "parse"
    /\ fileIdx = Len(pkgSyntax)
    /\ Len(par.Errors) > 0
    /\ LET D == DedupImports(par, identNames)
       IN  par' = D.par /\ identNames' = D.names
    /\ pc' = "parsed"
    /\ UNCHANGED <<walk, ge, variant, pkgSyntax, fileIdx, scanLog, bindLog, annVars, procVars>>

\* The early return of ParsePkg.
ParsePkgReturn ==
    /\ pc = "parse"
    /\ fileIdx = Len(pkgSyntax)
    /\ Len(par.Errors) > 0
    /\ pc' = "parsed"
    /\ UNCHANGED <<walk, ge, annVars, parseVars, procVars>>

ParsePkgDedupImports ==
    /\ pc = "parse"
    /\ fileIdx = Len(pkgSyntax)
    /\ Len(par.Errors) = 0
    /\ LET D == DedupImports(par, identNames)
       IN  par' = D.par /\ identNames' = D.names
    /\ pc' = "parsed"
    /\ UNCHANGED <<walk, ge, variant, pkgSyntax, fileIdx, scanLog, bindLog, annVars, procVars>>

NextParse == ParseFile \/ ParsePkgReturn \/ ParsePkgDedupImports

SpecParse == InitParse /\ [][NextParse]_vars

(***************************************************************************)
(* Properties of ParseFile and ParsePkg.  What a unit asks for is read     *)
(* from its text: the annotation each comment carries and the declaration  *)
(* each comment stands before.                                             *)
(***************************************************************************)
Units == 1..Len(pkgSyntax)

\* ParseFile has returned for unit f.
FileParsed(f) == f <= fileIdx /\ ~(pc = "panic" /\ f = fileIdx)

\* ParseFile has been called for unit f.
FileEntered(f) == f <= fileIdx

TypeSpecsOf(f) == {i \in 1..Len(pkgSyntax[f]) : pkgSyntax[f][i].k = "T"}

\* The annotation written in the comment of element i of unit f.
AnnAt(f, i) ==
    IF i = 0 \/ pkgSyntax[f][i].c = "" THEN NoAnnRes
    ELSE extractAnnotation(CommentGroup(pkgSyntax[f], i, FileBase(pkgSyntax, f)))

\* The opening of the group type spec i of unit f is a member of, 0 when the
\* spec is a declaration of its own.
GroupOf(f, i) ==
    LET before == {j \in 1..(i - 1) : pkgSyntax[f][j].k \in {"G", "F"}}
        last == CHOOSE j \in before : \A k \in before : k <= j
    IN  IF before = {} THEN 0 ELSE IF pkgSyntax[f][last].k = "G" THEN last ELSE 0

\* The effective annotation of type spec i of unit f: its own, else the one
\* of its group, else none.  The only doc comment of a spec that is a
\* declaration of its own is the doc comment of that declaration.
OwnAnn(f, i) == IF GroupOf(f, i) = 0 THEN NoAnnRes ELSE AnnAt(f, i)
GroupAnn(f, i) == IF GroupOf(f, i) = 0 THEN AnnAt(f, i) ELSE AnnAt(f, GroupOf(f, i))
Effective(f, i) ==
    IF OwnAnn(f, i).ok THEN OwnAnn(f, i)
    ELSE IF GroupAnn(f, i).ok THEN GroupAnn(f, i)
    ELSE NoAnnRes

NamePosIn(f, i) == NamePosOf(pkgSyntax[f], i, FileBase(pkgSyntax, f))
NameIn(f, i) == SpecName(pkgSyntax[f][i].kind)

\* The calls of ExtractEvent for type spec i of unit f.
Bindings(f, i) == {n \in DOMAIN bindLog : bindLog[n].NamePos = NamePosIn(f, i)}

ErrorsOf(kind, pos) == {n \in DOMAIN par.Errors : par.Errors[n].kind = kind /\ par.Errors[n].pos = pos}

\* The name is the suffix after a non-empty stem.
WellNamed(name) ==
    \E k \in 1..Len(name) :
        k < Len(name) /\ SubSeq(name, k + 1, Len(name)) = flagHandlerSuffix

\* The next type spec of unit f after i that has an effective annotation, 0
\* for none.
NextBound(f, i) ==
    LET later == {j \in TypeSpecsOf(f) : j > i /\ Effective(f, j).ok}
    IN  IF later = {} THEN 0 ELSE CHOOSE j \in later : \A k \in later : j <= k

\* C4: a type spec with an effective annotation gets a naming error if and
\* only if its name does not end with the suffix or is no longer than it;
\* the naming error does not stop the spec's processing: ExtractEvent is still
\* called for it and, once that call has returned, the next annotated spec of
\* the unit is processed too.  A spec without an effective annotation gets no
\* naming error.
C4_NamingRule ==
    \A f \in Units : \A i \in TypeSpecsOf(f) :
        LET named == ErrorsOf("naming", NamePosIn(f, i))
            calls == Bindings(f, i)
        IN  IF ~Effective(f, i).ok THEN named = {} /\ calls = {}
            ELSE /\ FileParsed(f) => calls # {}
                 /\ ~FileEntered(f) => calls = {} /\ named = {}
                 /\ calls # {} =>
                       /\ Cardinality(named) = (IF WellNamed(NameIn(f, i)) THEN 0 ELSE 1)
                       /\ \A n \in named : par.Errors[n].arg = NameIn(f, i)
                       /\ \A n \in calls :
                             /\ bindLog[n].namingError = ~WellNamed(NameIn(f, i))
                             /\ (bindLog[n].st # "panic" /\ NextBound(f, i) # 0)
                                   => Bindings(f, NextBound(f, i)) # {}

\* A unit has been parsed in which an annotated spec with a bad name got its
\* naming error and its shape, and the next annotated spec got its shape.
C4_Witness ==
    /\ pc = "parsed"
    /\ \E f \in Units : \E i \in TypeSpecsOf(f) :
          /\ Effective(f, i).ok
          /\ ~WellNamed(NameIn(f, i))
          /\ ErrorsOf("naming", NamePosIn(f, i)) # {}
          /\ \E n \in Bindings(f, i) : bindLog[n].st = "ok"
          /\ NextBound(f, i) # 0
          /\ WellNamed(NameIn(f, NextBound(f, i)))
          /\ \E n \in Bindings(f, NextBound(f, i)) : bindLog[n].st = "ok"

\* The shapes of a declaration record: Events in the stack form, Event in
\* the cursor form.
EventsOf(decl) == IF variant = "stack" THEN Range(decl.Events) ELSE {decl.Event}

\* C5: each type spec is bound to exactly one effective annotation: its own
\* when its own doc comment carries one, else the one of its group, else
\* none.  ExtractEvent is called at most once for a spec, with the position
\* and the flag set of exactly that annotation, and the shape of the spec is
\* recorded under that annotation.
C5_EffectiveAnnotation ==
    \A f \in Units : \A i \in TypeSpecsOf(f) :
        LET calls == Bindings(f, i)
            eff == Effective(f, i)
        IN  /\ Cardinality(calls) <= 1
            /\ FileParsed(f) => (calls # {} <=> eff.ok)
            /\ \A n \in calls : eff.ok /\ bindLog[n].ann = eff.ann
            /\ \A d \in DOMAIN par.Decls :
                  (\E ev \in EventsOf(par.Decls[d]) : ev.NamePos = NamePosIn(f, i))
                      => eff.ok /\ par.Decls[d].Ann = eff.ann

\* A group annotated lock has been parsed, one member bound to its own
\* annotation spawn and another one to the annotation of the group.
C5_Witness ==
    /\ pc = "parsed"
    /\ \E f \in Units : \E i, j \in TypeSpecsOf(f) :
          /\ GroupOf(f, i) # 0 /\ GroupOf(f, j) = GroupOf(f, i)
          /\ GroupAnn(f, i).ok /\ GroupAnn(f, i).ann.Flags = {annLock}
          /\ OwnAnn(f, i).ok /\ ~OwnAnn(f, j).ok
          /\ \E n \in Bindings(f, i) : bindLog[n].ann.Flags = {annSpawn}
          /\ \E n \in Bindings(f, j) : bindLog[n].ann.Flags = {annLock}

\* The well-formed annotations of unit f that are not the doc comment of a
\* type declaration or a type spec: those of free comments and of func
\* declarations.
Misplaced(f) ==
    {i \in 1..Len(pkgSyntax[f]) : pkgSyntax[f][i].k \in {"C", "F"} /\ AnnAt(f, i).ok}

\* C6: in the stack form, when ParseFile returns, each well-formed
\* annotation that is not the doc comment of a type declaration or a type
\* spec has produced exactly one "apply only" error, and none before; it
\* never produces a declaration record.
C6_MisplacedAnnotation ==
    variant = "stack" =>
        \A f \in Units : \A i \in Misplaced(f) :
            LET pos == AnnAt(f, i).ann.Pos
            IN  /\ Cardinality(ErrorsOf("apply only", pos)) = (IF FileParsed(f) THEN 1 ELSE 0)
                /\ \A d \in DOMAIN par.Decls : par.Decls[d].Ann.Pos # pos

\* The stack form has parsed a package with an annotated func declaration or
\* free comment, which got its error, and an annotated type spec, which got
\* its shape.
C6_Witness ==
    /\ pc = "parsed"
    /\ variant = "stack"
    /\ \E f \in Units : \E i \in Misplaced(f) :
          Cardinality(ErrorsOf("apply only", AnnAt(f, i).ann.Pos)) = 1
    /\ \E n \in DOMAIN bindLog : bindLog[n].st = "ok"

\* C7: an error raised for one annotation or declaration never aborts the
\* pass: every unit is parsed to its end, every comment group of a unit
\* entered is handed to extractAnnotation, and every bound type spec yields
\* exactly one outcome, a shape or an error.
C7_ErrorsNeverAbort ==
    variant = "stack" =>
        /\ pc # "panic"
        /\ \A f \in Units : FileEntered(f) =>
              /\ \A i \in Range(Comments(pkgSyntax[f])) :
                    ElemPos(pkgSyntax[f], i, FileBase(pkgSyntax, f)) \in Range(scanLog)
              /\ \A i \in TypeSpecsOf(f) :
                    Effective(f, i).ok =>
                        /\ Cardinality(Bindings(f, i)) = 1
                        /\ \A n \in Bindings(f, i) : bindLog[n].st \in {"ok", "err"}

(***************************************************************************)
(* The program: main with process (main.go:633-694), the driver of the     *)
(* cursor form, and generate (generate.go:140-211), the driver of the      *)
(* stack form.  The output path holds no file ("absent"), a file of an     *)
(* earlier run ("stale") or the file written by this run.                  *)
(***************************************************************************)
MaxProcElems == 2

ProcElems ==
    {Elem("C", "lock", ""), Elem("T", "", "fn"), Elem("T", "spawn", "fn"),
     Elem("T", "spawn", "nosuffix"), Elem("T", "spawn", "int"),
     Elem("T", "spawn", "bare")}

\* parser.ParsePkg as one call.
RECURSIVE ParseFiles(_, _, _, _)
ParseFiles(form, syntax, f, S0) ==
    Strict(LAMBDA S :
        IF S.panicked \/ f > Len(syntax) THEN S
        ELSE ParseFiles(form, syntax, f + 1,
                        [ParseFileOf(form, syntax[f], FileBase(syntax, f), S)
                            EXCEPT !.files = f]),
        S0)

ParsePkg(form, syntax, nodeNames) ==
    Strict(LAMBDA S :
        IF S.panicked \/ Len(S.par.Errors) > 0
        THEN [par |-> S.par, names |-> nodeNames, run |-> S]
        ELSE Strict(LAMBDA D : [par |-> D.par, names |-> D.names, run |-> S],
                    DedupImports(S.par, nodeNames)),
        ParseFiles(form, syntax, 1, RunState(newParser, <<>>, <<>>)))

\* annotation.FormatFlags
FormatFlags(ann) == SortedFlags(ann.Flags)

\* The event name: the type name without the suffix.
CutSuffix(name) == SubSeq(name, 1, Len(name) - Len(flagHandlerSuffix))

FuncNames(funcs) == [n \in DOMAIN funcs |-> funcs[n].Name]

\* The lines printed.
GoLine(e) == [tag |-> "go", err |-> e]
EvonLines(errs) == [n \in DOMAIN errs |-> [tag |-> "evon", err |-> errs[n]]]
FatalLine == [tag |-> "Fatal", err |-> "create"]
PanicLine == [tag |-> "panic", err |-> "nil pointer dereference"]
NoHandlerTypesDetected == [tag |-> "(No handler types detected)"]
GeneratedLine == [tag |-> "Generated"]

\* strings.HasPrefix(e.Pos, path): an error of the build stands in the
\* output file ("out") or elsewhere ("other").
InOutput(e) == e = "out"

\* showSummary of the cursor form: one row for each declaration record.
ShowRow(decl, ev) ==
    [tag |-> "row", Kind |-> IF ev.Funcs[1].Name = "" THEN "F" ELSE "I",
     Name |-> ev.Name, Flags |-> FormatFlags(decl.Ann), NamePos |-> ev.NamePos]

showSummary(p) == [n \in DOMAIN p.Decls |-> ShowRow(p.Decls[n], p.Decls[n].Event)]

\* showSummary of the stack form: one row for each event of each record.
showSummaryStack(p) ==
    LET rows == Concat([n \in DOMAIN p.Decls |->
                           [m \in DOMAIN p.Decls[n].Events |->
                               ShowRow(p.Decls[n], p.Decls[n].Events[m])]])
    IN  IF Len(rows) = 0 THEN <<NoHandlerTypesDetected>> ELSE rows

\* writeFile: os.Create succeeds or fails.  What it does to the output path,
\* the lines it prints and what it returns.
writeFile(file, created) ==
    IF created
    THEN [ops |-> <<"writeFile", "os.Create", "Write">>, outFile |-> file, keep |-> FALSE,
          stderr |-> <<>>, stdout |-> <<GeneratedLine>>, ok |-> TRUE]
    ELSE [ops |-> <<"writeFile", "os.Create">>, outFile |-> "", keep |-> TRUE,
          stderr |-> <<FatalLine>>, stdout |-> <<>>, ok |-> FALSE]

\* generate(par, path) of main.go:142-189.  The signatures of the functions
\* are rendered from Params and Returns into the template; the record kept
\* here holds the events, the flags and the imports.
genEvent(decl, ev) ==
    [Name |-> CutSuffix(ev.Name), Flags |-> decl.Ann.Flags,
     FlagsLit |-> FormatFlags(decl.Ann), Funcs |-> FuncNames(ev.Funcs)]

ClearAlias(r) == IF r.Alias = r.Name THEN [r EXCEPT !.Alias = ""] ELSE r

generatePar(p) ==
    LET sync == IF "sync" \in DOMAIN p.Imports THEN p.Imports["sync"].Alias ELSE ""
    IN  [p EXCEPT !.PkgNameSet = IF "sync" \in DOMAIN p.Imports THEN @ \ {sync} ELSE @,
                  !.ImportList = [n \in DOMAIN @ |-> ClearAlias(@[n])],
                  !.Imports = [q \in DOMAIN @ |-> ClearAlias(@[q])]]

genFile(p) ==
    [Package |-> MainPath,
     SyncAlias |-> IF "sync" \in DOMAIN p.Imports THEN p.Imports["sync"].Alias ELSE "",
     Events |-> [n \in DOMAIN p.Decls |-> genEvent(p.Decls[n], p.Decls[n].Event)],
     Imports |-> [n \in DOMAIN p.ImportList |->
                     [Alias |-> ClearAlias(p.ImportList[n]).Alias,
                      Path |-> p.ImportList[n].Path]]]

\* The genFile of generate(pkg, path) of generate.go:157-208.
genFileStack(p) ==
    LET paths == SelectSeq(PathOrder, LAMBDA q : q \in DOMAIN p.Imports)
    IN  [Package |-> MainPath,
         Events |-> Concat([n \in DOMAIN p.Decls |->
                               [m \in DOMAIN p.Decls[n].Events |->
                                   genEvent(p.Decls[n], p.Decls[n].Events[m])]]),
         Imports |-> [n \in DOMAIN paths |->
                         [Alias |-> p.Imports[paths[n]].Alias, Path |-> paths[n]]]]

\* What a run of the program leaves behind.
Outcome(p, nodeNames, errLines, outLines, calls, out, code, at) ==
    [par |-> p, names |-> nodeNames, stderr |-> errLines, stdout |-> outLines,
     trace |-> calls, outFile |-> out, status |-> code, pc |-> at]

NoErrorsSeen(p) == FALSE
HasErrors(p) == Len(p.Errors) > 0

RemovesAlways(show) == TRUE
RemovesNever(show) == FALSE
RemovesStale(show) == ~show

\* process(pkg, path) with the exit status main gives it; R is what ParsePkg
\* returned.  A panic ends the program with status 2.
process(R, show, buildErrors, created, out) ==
    LET other == SelectSeq(buildErrors, LAMBDA e : ~InOutput(e))
        lines == [n \in DOMAIN other |-> GoLine(other[n])]
    IN  IF R.run.panicked
        THEN Outcome(R.par, R.names, Append(lines, PanicLine), <<>>, <<>>, out, 2, "panic")
        ELSE IF HasErrors(R.par)
        THEN Outcome(R.par, R.names, lines \o EvonLines(R.par.Errors), <<>>, <<>>, out, 1, "done")
        ELSE IF Len(R.par.Decls) = 0
        THEN IF RemovesStale(show)
             THEN Outcome(R.par, R.names, lines, <<NoHandlerTypesDetected>>,
                          <<"os.Remove">>, "absent", 0, "done")
             ELSE Outcome(R.par, R.names, lines, <<NoHandlerTypesDetected>>, <<>>, out, 0, "done")
        ELSE IF show
        THEN Outcome(R.par, R.names, lines, showSummary(R.par), <<>>, out, 0, "done")
        ELSE LET w == writeFile(genFile(R.par), created)
             IN  Outcome(generatePar(R.par), R.names, lines \o w.stderr, w.stdout,
                         <<"generate">> \o w.ops, IF w.keep THEN out ELSE w.outFile,
                         IF w.ok THEN 0 ELSE 1, "done")

\* generate(pkg, path) of generate.go:140-211; it returns no value and code
\* is the status before the call.
generate(R, show, buildErrors, created, out, code) ==
    LET lines == [n \in DOMAIN buildErrors |-> GoLine(buildErrors[n])]
    IN  IF R.run.panicked
        THEN Outcome(R.par, R.names, Append(lines, PanicLine), <<>>, <<>>, out, 2, "panic")
        ELSE IF HasErrors(R.par)
        THEN Outcome(R.par, R.names, lines \o EvonLines(R.par.Errors), <<>>, <<>>, out, code, "done")
        ELSE IF show
        THEN Outcome(R.par, R.names, lines, showSummaryStack(R.par), <<>>, out, code, "done")
        ELSE IF Len(R.par.Decls) = 0
        THEN Outcome(R.par, R.names, lines, <<NoHandlerTypesDetected>>,
                     <<"os.Remove">>, "absent", code, "done")
        ELSE LET w == writeFile(genFileStack(R.par), created)
             IN  Outcome(R.par, R.names, lines \o w.stderr, w.stdout, w.ops,
                         IF w.keep THEN out ELSE w.outFile, code, "done")

InitProc ==
    /\ pc = "start"
    /\ IdleWalk
    /\ variant \in {"stack", "cursor"}
    /\ pkgSyntax \in Packages(ProcElems, MaxProcElems)
    /\ flagShow \in BOOLEAN
    /\ pkgErrors \in {<<>>, <<"other">>, <<"out", "other">>}
    /\ outFile \in {"absent", "stale"}
    /\ fileIdx = 0
    /\ par = newParser
    /\ identNames = NoNames
    /\ scanLog = <<>>
    /\ bindLog = <<>>
    /\ handle = "none"
    /\ trace = <<>>
    /\ stderr = <<>>
    /\ stdout = <<>>
    /\ status = -1
    /\ IdleAnn

Finish(R, P) ==
    /\ par' = P.par
    /\ identNames' = P.names
    /\ fileIdx' = R.run.files
    /\ scanLog' = R.run.scanLog
    /\ bindLog' = R.run.bindLog
    /\ stderr' = P.stderr
    /\ stdout' = P.stdout
    /\ trace' = P.trace
    /\ outFile' = P.outFile
    /\ status' = P.status
    /\ pc' = P.pc
    /\ UNCHANGED <<walk, ge, variant, pkgSyntax, flagShow, pkgErrors, handle, annVars>>

\* main when packages.Load fails: it prints the error and returns.
MainLoadFails ==
    /\ pc = "start"
    /\ variant = "cursor"
    /\ stderr' = <<[tag |-> "Fatal", err |-> "load"]>>
    /\ status' = 0
    /\ pc' = "fatal"
    /\ UNCHANGED <<walk, ge, annVars, parseVars, flagShow, pkgErrors, outFile, handle, trace, stdout>>

\* main calling process.
Process ==
    /\ pc = "start"
    /\ variant = "cursor"
    /\ \E created \in BOOLEAN :
       \E R \in {ParsePkg(variant, pkgSyntax, identNames)} :
          Finish(R, process(R, flagShow, pkgErrors, created, outFile))

\* A call of generate(pkg, path).
Generate ==
    /\ pc = "start"
    /\ variant = "stack"
    /\ \E created \in BOOLEAN :
       \E R \in {ParsePkg(variant, pkgSyntax, identNames)} :
          Finish(R, generate(R, flagShow, pkgErrors, created, outFile, status))

NextProc == MainLoadFails \/ Process \/ Generate

SpecProc == InitProc /\ [][NextProc]_vars

(***************************************************************************)
(* Properties of the program.                                              *)
(***************************************************************************)
\* A call of process or generate(pkg, path) returns in this step.
Returns == pc = "start" /\ pc' = "done"

\* The program ends in this step, by a return or by a panic.
Ends == pc = "start" /\ pc' \in {"done", "panic", "fatal"}

EvonPrinted(lines) == SelectSeq(lines, LAMBDA l : l.tag = "evon")

\* No type spec of the package has an effective annotation.
NoneAnnotated == \A f \in Units : \A i \in TypeSpecsOf(f) : ~Effective(f, i).ok

\* C8: when the collector holds an error after ParsePkg, neither generate
\* nor writeFile is called and nothing is created, written or removed at the
\* output path; every collected error is printed, in order, and process
\* reports failure.
C8_ErrorsSuppressOutput ==
    [][(Returns /\ Len(par'.Errors) > 0) =>
          /\ trace' = <<>>
          /\ outFile' = outFile
          /\ EvonPrinted(stderr') = EvonLines(par'.Errors)
          /\ variant = "cursor" => status' = 1]_vars

\* process has returned with a naming error collected for a declaration it
\* has a shape of; the file of an earlier run is still there.
C8_Witness ==
    /\ pc = "done"
    /\ variant = "cursor"
    /\ ~flagShow
    /\ Len(par.Errors) > 0
    /\ Len(par.Decls) > 0
    /\ outFile = "stale"
    /\ Len(EvonPrinted(stderr)) = Len(par.Errors)
    /\ status = 1

\* C9 as stated: with no diagnostic collected and no annotated declaration,
\* process removes the output file and the exit status is zero; with any
\* diagnostic collected the exit status is not zero.
C9_RemovesStaleAlways ==
    [][(Ends /\ variant = "cursor" /\ pc' # "fatal") =>
          /\ (Len(par'.Errors) = 0 /\ NoneAnnotated) => (outFile' = "absent" /\ status' = 0)
          /\ Len(par'.Errors) > 0 => status' # 0]_vars

\* C9 amended: with no diagnostic collected and no annotated declaration,
\* the exit status is zero and process removes the output file unless it runs
\* in show-only mode, in which it leaves the output path as it was; with any
\* diagnostic collected the exit status is not zero.
C9_RemovesStaleUnlessShow ==
    [][(Ends /\ variant = "cursor" /\ pc' # "fatal") =>
          /\ (Len(par'.Errors) = 0 /\ NoneAnnotated) =>
                /\ status' = 0
                /\ pc' = "done"
                /\ ~flagShow => (outFile' = "absent" /\ trace' = <<"os.Remove">>)
                /\ flagShow => (outFile' = outFile /\ trace' = <<>>)
          /\ Len(par'.Errors) > 0 => status' # 0]_vars

\* process has returned from a package without annotated declarations and
\* without errors, not in show-only mode: the output file has been removed.
C9_Witness ==
    /\ pc = "done"
    /\ variant = "cursor"
    /\ ~flagShow
    /\ Len(par.Errors) = 0
    /\ NoneAnnotated
    /\ \E f \in Units : TypeSpecsOf(f) # {}
    /\ trace = <<"os.Remove">>
    /\ outFile = "absent"
    /\ status = 0

\* C10: in show-only mode, whatever the package holds, nothing is created,
\* written or removed at the output path.
C10_ShowOnlyKeepsOutput ==
    [][(Ends /\ flagShow) => (outFile' = outFile /\ trace' = <<>>)]_vars

\* In show-only mode a package with an annotated declaration and no errors
\* has been summarised; the file of an earlier run is still there.
C10_Witness ==
    /\ pc = "done"
    /\ flagShow
    /\ Len(par.Errors) = 0
    /\ Len(par.Decls) > 0
    /\ \E n \in DOMAIN stdout : stdout[n].tag = "row"
    /\ outFile = "stale"

(***************************************************************************)
(* The iteration over a map.  The order in which range visits the keys of  *)
(* a map is not fixed: a loop over a map is modelled with the order as an  *)
(* input, any sequence that holds each key once.                           *)
(***************************************************************************)
RangeOrders(keys) ==
    {o \in [1..Cardinality(keys) -> keys] : \A k \in keys : \E n \in DOMAIN o : o[n] = k}

\* annotation flags as sort.Strings compares them.
FlagLess(a, b) ==
    (CHOOSE n \in DOMAIN VocabSeq : VocabSeq[n] = a) < (CHOOSE n \in DOMAIN VocabSeq : VocabSeq[n] = b)

\* The comparison of parse.go:357-359, which looks at the dots only.
DotTierOnly(pi, pj) == ~ContainsDot(pi) /\ ContainsDot(pj)

\* The less functions with the import list compared by the dots only.
DotTierLess(what, a, b) == IF what = "imports" THEN DotTierOnly(a, b) ELSE FlagLess(a, b)

\* The less function of a sort: of the import list or of the flag words.
SliceLess(what, a, b) == IF what = "imports" THEN ImportLess(a, b) ELSE FlagLess(a, b)

\* sort.Slice and sort.Strings on a short slice: insertion sort, an element
\* moving down while it is less than the one before it.
RECURSIVE InsertDown(_, _, _)
InsertDown(list, j, what) ==
    IF j > 1 /\ SliceLess(what, list[j], list[j - 1])
    THEN InsertDown([list EXCEPT ![j] = list[j - 1], ![j - 1] = list[j]], j - 1, what)
    ELSE list

RECURSIVE InsertionSort(_, _, _)
InsertionSort(list, i, what) ==
    IF i > Len(list) THEN list
    ELSE InsertionSort(InsertDown(list, i, what), i + 1, what)

\* parser.DedupImports with the order in which range visits par.Imports.
DedupImportsRange(p, names, iter) ==
    LET imports == IF p.NeedSync /\ "sync" \notin DOMAIN p.Imports
                   THEN [q \in DOMAIN p.Imports \cup {"sync"} |->
                            IF q = "sync" THEN SyncImport ELSE p.Imports[q]]
                   ELSE p.Imports
        order == InsertionSort(iter, 2, "imports")
        list == [n \in 1..Len(order) |-> imports[order[n]]]
        D == AssignAliases([ImportList |-> list, PkgNameSet |-> newDedupSet, names |-> names], 1)
    IN  [par |-> [p EXCEPT !.Imports =
                              [q \in DOMAIN imports |->
                                  D.ImportList[CHOOSE n \in 1..Len(order) : order[n] = q]],
                           !.ImportList = D.ImportList,
                           !.PkgNameSet = D.PkgNameSet],
         names |-> D.names]

\* The keys of par.Imports when the loop of DedupImports starts.
ImportKeys(p) == DOMAIN p.Imports \cup (IF p.NeedSync THEN {"sync"} ELSE {})

\* annotation.FormatFlags with the order in which range visits ann.Flags.
FormatFlagsRange(iter) == InsertionSort(iter, 2, "flags")

(***************************************************************************)
(* ParsePkg over packages of one unit whose annotated types are the shapes *)
(* of ShapeKinds: interfaces with embeddings, chains of names, and         *)
(* signatures that name types of the imported packages.                    *)
(***************************************************************************)
MaxShapeElems == 2

ShapeElems ==
    {Elem("T", "spawn", kind) : kind \in ShapeKinds \cup {"fn"}}
        \cup {Elem("T", "both", "closer")}

InitShape ==
    /\ pc = "parse"
    /\ IdleWalk
    /\ variant \in {"stack", "cursor"}
    /\ pkgSyntax \in {<<u>> : u \in UnitsUpTo(ShapeElems, MaxShapeElems)}
    \* a package declares a type name once
    /\ \A i, j \in DOMAIN pkgSyntax[1] : pkgSyntax[1][i].kind = pkgSyntax[1][j].kind => i = j
    /\ fileIdx = 0
    /\ par = newParser
    /\ identNames = NoNames
    /\ scanLog = <<>>
    /\ bindLog = <<>>
    /\ IdleAnn
    /\ IdleProc

\* The end of ParsePkg without errors: DedupImports, range visiting the
\* import table in some order.
ParsePkgDedupImportsRange ==
    /\ pc = "parse"
    /\ fileIdx = Len(pkgSyntax)
    /\ Len(par.Errors) = 0
    /\ \E iter \in RangeOrders(ImportKeys(par)) :
          LET D == DedupImportsRange(par, identNames, iter)
          IN  par' = D.par /\ identNames' = D.names
    /\ pc' = "parsed"
    /\ UNCHANGED <<walk, ge, variant, pkgSyntax, fileIdx, scanLog, bindLog, annVars, procVars>>

NextShape == ParseFile \/ ParsePkgReturn \/ ParsePkgDedupImportsRange

SpecShape == InitShape /\ [][NextShape]_vars

(***************************************************************************)
(* Properties of shape extraction.  What an interface asks for is read     *)
(* from the program graph: the named methods met when the interface is     *)
(* walked depth first in declaration order, each with the package of the   *)
(* interface that declares it.                                             *)
(***************************************************************************)
RECURSIVE Traversal(_, _)
Traversal(pkg, typ) ==
    Concat([n \in DOMAIN typ.Methods |->
               IF Len(typ.Methods[n].Names) > 0
               THEN <<[name |-> typ.Methods[n].Names[1], pkg |-> pkg]>>
               ELSE IF /\ Resolve(pkg, typ.Methods[n].Type).st = "ok"
                       /\ Resolve(pkg, typ.Methods[n].Type).typ.k = "iface"
               THEN Traversal(Resolve(pkg, typ.Methods[n].Type).pkg,
                              Resolve(pkg, typ.Methods[n].Type).typ)
               ELSE <<>>])

\* An embedding met on the walk does not lead to an interface.
RECURSIVE BrokenEmbedding(_, _)
BrokenEmbedding(pkg, typ) ==
    \E n \in DOMAIN typ.Methods :
        /\ Len(typ.Methods[n].Names) = 0
        /\ \/ Resolve(pkg, typ.Methods[n].Type).st # "ok"
           \/ Resolve(pkg, typ.Methods[n].Type).typ.k # "iface"
           \/ BrokenEmbedding(Resolve(pkg, typ.Methods[n].Type).pkg,
                              Resolve(pkg, typ.Methods[n].Type).typ)

\* The method is exported or declared in the package being processed.
VisibleEntry(e) == IsExported(e.name) \/ e.pkg = MainPath

\* The names of the entries that are the first of their name.
FirstOfName(seq) ==
    LET first == SelectSeq([n \in DOMAIN seq |-> n],
                           LAMBDA n : \A m \in 1..(n - 1) : seq[m].name # seq[n].name)
    IN  [k \in DOMAIN first |-> seq[first[k]].name]

\* The type of type spec i of unit f, and what it resolves to.
TypeIn(f, i) == SpecType(pkgSyntax[f][i].kind, NamePosIn(f, i))
UnderIn(f, i) == Resolve(MainPath, TypeIn(f, i))

\* The annotated type specs of unit f whose type leads to an interface, and
\* those of them that can be flattened.
InterfacesOf(f) ==
    {i \in TypeSpecsOf(f) :
        Effective(f, i).ok /\ UnderIn(f, i).st = "ok" /\ UnderIn(f, i).typ.k = "iface"}
FlatInterfacesOf(f) ==
    {i \in InterfacesOf(f) : ~BrokenEmbedding(UnderIn(f, i).pkg, UnderIn(f, i).typ)}

TraversalIn(f, i) == Traversal(UnderIn(f, i).pkg, UnderIn(f, i).typ)

\* The shapes recorded for type spec i of unit f.
AllEvents == UNION {EventsOf(par.Decls[d]) : d \in DOMAIN par.Decls}
ShapesOf(f, i) == {ev \in AllEvents : ev.NamePos = NamePosIn(f, i)}

NoDuplicates(seq) == \A m, n \in DOMAIN seq : m # n => seq[m] # seq[n]

\* C11: the list extractInterface returns for an interface holds no method
\* name twice: it is the list of the visible methods in the order of the
\* depth-first walk, each name at the place of its first occurrence and
\* every later occurrence left out.
C11_FirstOccurrenceWins ==
    \A f \in Units : \A i \in FlatInterfacesOf(f) : \A ev \in ShapesOf(f, i) :
        /\ NoDuplicates(FuncNames(ev.Funcs))
        /\ FuncNames(ev.Funcs) = FirstOfName(SelectSeq(TraversalIn(f, i), VisibleEntry))

\* The diamond has been flattened: D is reached through A and through B, and
\* M is listed once, before N and Open.
C11_Witness ==
    /\ pc = "parsed"
    /\ \E f \in Units : \E i \in FlatInterfacesOf(f) :
          /\ pkgSyntax[f][i].kind = "diamond"
          /\ Cardinality({n \in DOMAIN TraversalIn(f, i) : TraversalIn(f, i)[n].name = "M"}) > 1
          /\ \E ev \in ShapesOf(f, i) : FuncNames(ev.Funcs) = <<"M", "N", "Open">>

\* The errors collected for type spec i of unit f, of any kind.
SpecErrors(f, i) ==
    {n \in DOMAIN par.Errors :
        /\ par.Errors[n].kind \in {"cannot resolve", "no usable methods", "apply only"}
        /\ par.Errors[n].pos \in {NamePosIn(f, i), Effective(f, i).ann.Pos}}

VisibleNames(f, i) == {e.name : e \in {x \in Range(TraversalIn(f, i)) : VisibleEntry(x)}}

\* C12: a named method is in the flattened list if and only if some
\* occurrence of its name on the walk is exported or declared by an
\* interface of the package being processed.  An invisible occurrence is no
\* error and does not keep a later visible method of the same name out: an
\* interface with a visible method gets its shape and no error.
C12_VisibilityRule ==
    \A f \in Units : \A i \in FlatInterfacesOf(f) :
        /\ \A ev \in ShapesOf(f, i) : Range(FuncNames(ev.Funcs)) = VisibleNames(f, i)
        /\ (FileParsed(f) /\ VisibleNames(f, i) # {}) =>
              (ShapesOf(f, i) # {} /\ SpecErrors(f, i) = {})

\* An interface has been flattened that embeds lib.Closer, whose method
\* secret is invisible, and then declares a method secret of its own: Close
\* of lib.Closer and the local secret are listed.
C12_Witness ==
    /\ pc = "parsed"
    /\ \E f \in Units : \E i \in FlatInterfacesOf(f) :
          /\ \E n \in DOMAIN TraversalIn(f, i) :
                /\ TraversalIn(f, i)[n] = [name |-> "secret", pkg |-> LibPath]
                /\ \E m \in DOMAIN TraversalIn(f, i) :
                      m > n /\ TraversalIn(f, i)[m] = [name |-> "secret", pkg |-> MainPath]
          /\ \E ev \in ShapesOf(f, i) : FuncNames(ev.Funcs) = <<"Close", "secret">>

\* The annotated type specs of unit f whose interface cannot be flattened.
BrokenInterfacesOf(f) == InterfacesOf(f) \ FlatInterfacesOf(f)

\* C13: when an embedding met while an annotated interface is flattened
\* does not resolve, or resolves to something that is no interface, the call
\* of ExtractEvent for the declaration fails as a whole: it records no shape
\* for the declaration and collects exactly one error for it.
C13_BrokenEmbeddingFails ==
    \A f \in Units : \A i \in BrokenInterfacesOf(f) :
        Bindings(f, i) # {} =>
            /\ ShapesOf(f, i) = {}
            /\ Cardinality(SpecErrors(f, i)) = 1
            /\ \A n \in Bindings(f, i) : bindLog[n].st = "err"

\* The same for the embeddings for which Resolve returns.
C13_ReturnedOnly ==
    \A f \in Units : \A i \in BrokenInterfacesOf(f) :
        (Bindings(f, i) # {} /\ \A n \in Bindings(f, i) : bindLog[n].st # "panic") =>
            /\ ShapesOf(f, i) = {}
            /\ Cardinality(SpecErrors(f, i)) = 1
            /\ \A n \in SpecErrors(f, i) : par.Errors[n].kind = "cannot resolve"

\* C14: an annotated interface that is flattened to an empty list, having no
\* method at all or only invisible ones, is rejected: once ParseFile has
\* returned it has no shape and exactly one error, the error "has no usable
\* methods" at its name.
C14_EmptyInterfaceRejected ==
    \A f \in Units : \A i \in FlatInterfacesOf(f) :
        (FileParsed(f) /\ VisibleNames(f, i) = {}) =>
            /\ ShapesOf(f, i) = {}
            /\ Cardinality(SpecErrors(f, i)) = 1
            /\ Cardinality(ErrorsOf("no usable methods", NamePosIn(f, i))) = 1
            /\ \A n \in ErrorsOf("no usable methods", NamePosIn(f, i)) :
                  par.Errors[n].arg = NameIn(f, i)

\* Both an interface without methods and lib.Hidden, whose only method is
\* invisible, have been rejected.
C14_Witness ==
    /\ pc = "parsed"
    /\ \E f \in Units : \E i, j \in FlatInterfacesOf(f) :
          /\ TraversalIn(f, i) = <<>>
          /\ TraversalIn(f, j) # <<>> /\ VisibleNames(f, j) = {}
          /\ ErrorsOf("no usable methods", NamePosIn(f, i)) # {}
          /\ ErrorsOf("no usable methods", NamePosIn(f, j)) # {}

\* Where the chain of names of a type spec of a given kind ends in the
\* program graph: the literal type and the package it is written in.  ok is
\* FALSE for a chain that ends at a name the type checker could not bind.
WrittenAt(kind, at) ==
    CASE kind \in {"closer", "alias"} -> [ok |-> TRUE, pkg |-> LibPath, typ |-> LibTypes.Closer]
      [] kind = "hidden" -> [ok |-> TRUE, pkg |-> LibPath, typ |-> LibTypes.Hidden]
      [] kind = "libconn" -> [ok |-> TRUE, pkg |-> LibPath, typ |-> LibTypes.Conn]
      [] kind \in {"fnalias", "fnname"} ->
            [ok |-> TRUE, pkg |-> MainPath, typ |-> MainTypes.FnAlias]
      [] kind = "unres" -> [ok |-> FALSE, pkg |-> NilPkg, typ |-> NilExpr]
      [] OTHER -> [ok |-> TRUE, pkg |-> MainPath, typ |-> SpecType(kind, at)]

\* The annotated type specs of unit f whose type is a literal or a chain of
\* local aliases, imported names, selectors and parentheses.
ChainsOf(f) ==
    {i \in TypeSpecsOf(f) : Effective(f, i).ok /\ pkgSyntax[f][i].kind \notin {"int"}}

\* C15: for a type that is a chain of local aliases, imported names,
\* selectors and parentheses, Resolve returns unresolved or the literal type
\* at the end of the chain with the package that type is written in, never
\* a name, a selector or a parenthesized expression.  When the literal is
\* neither a func type nor an interface type, ExtractEvent gives the error
\* "apply only to func or interface", at the position of the annotation, and
\* no shape.
C15_ResolveReachesLiteral ==
    \A f \in Units : \A i \in ChainsOf(f) :
        LET want == WrittenAt(pkgSyntax[f][i].kind, NamePosIn(f, i))
            got == UnderIn(f, i)
        IN  /\ got.st \in {"ok", "nil"}
            /\ got.st = "ok" <=> want.ok
            /\ got.st = "ok" =>
                  /\ got.typ.k \notin {"ident", "sel", "paren"}
                  /\ got.typ = want.typ /\ got.pkg = want.pkg
            /\ got.st = "nil" => got.typ = NilExpr
            /\ (FileParsed(f) /\ got.st = "ok" /\ got.typ.k \notin {"func", "iface"}) =>
                  /\ ShapesOf(f, i) = {}
                  /\ Cardinality(SpecErrors(f, i)) = 1
                  /\ Cardinality(ErrorsOf("apply only", Effective(f, i).ann.Pos)) = 1
            /\ (FileParsed(f) /\ got.st = "ok" /\ got.typ.k = "func") =>
                  \E ev \in ShapesOf(f, i) : FuncNames(ev.Funcs) = <<"">>

\* A type that is a local alias of the parenthesized selector lib.Closer
\* has got the shape of the interface written in package lib, read in that
\* package, and the struct lib.Conn its error.
C15_Witness ==
    /\ pc = "parsed"
    /\ \E f \in Units : \E i, j \in ChainsOf(f) :
          /\ TypeIn(f, i).k = "ident" /\ TypeIn(f, i).obj
          /\ PkgDeclType(MainPath, TypeIn(f, i).name).k = "paren"
          /\ UnderIn(f, i) = Resolved("ok", LibPath, LibTypes.Closer)
          /\ \E ev \in ShapesOf(f, i) : FuncNames(ev.Funcs) = <<"Close">>
          /\ TypeIn(f, j).k = "sel"
          /\ UnderIn(f, j) = Resolved("ok", LibPath, StructType)
          /\ ErrorsOf("apply only", Effective(f, j).ann.Pos) # {}

(***************************************************************************)
(* Properties of DedupImports.                                             *)
(***************************************************************************)
\* DedupImports has run.
Finalized == pc = "parsed" /\ Len(par.Errors) = 0

\* Path p comes before path q in (tier, path) order: paths without a dot
\* first, and by path within a tier.
TierBefore(p, q) ==
    \/ ~ContainsDot(p) /\ ContainsDot(q)
    \/ ContainsDot(p) = ContainsDot(q) /\ PathIndex(p) < PathIndex(q)

\* One record for each path, the list in (tier, path) order, and the aliases
\* pairwise distinct.
OneRecordPerPath ==
    /\ \A m, n \in DOMAIN par.ImportList :
          m < n => /\ par.ImportList[m].Path # par.ImportList[n].Path
                   /\ TierBefore(par.ImportList[m].Path, par.ImportList[n].Path)
                   /\ par.ImportList[m].Alias # par.ImportList[n].Alias
    /\ {par.ImportList[n].Path : n \in DOMAIN par.ImportList} = DOMAIN par.Imports
    /\ \A n \in DOMAIN par.ImportList :
          /\ par.ImportList[n].Alias # ""
          /\ par.Imports[par.ImportList[n].Path] = par.ImportList[n]
          /\ par.ImportList[n].Name = PkgDefaultName(par.ImportList[n].Path)

\* The first record of its default name.
FirstOfDefaultName(n) == \A m \in 1..(n - 1) : par.ImportList[m].Name # par.ImportList[n].Name

\* C16: after DedupImports there is one import record for each package
\* path, the aliases are pairwise distinct, and among the records of one
\* default name the first in (tier, path) order has the default name as its
\* alias.
C16_FirstKeepsDefaultName ==
    Finalized =>
        /\ OneRecordPerPath
        /\ \A n \in DOMAIN par.ImportList :
              FirstOfDefaultName(n) => par.ImportList[n].Alias = par.ImportList[n].Name

\* C16 as the code has it: one import record for each package path, the
\* aliases pairwise distinct, and a record has its default name as its alias
\* if and only if no record before it in (tier, path) order was given that
\* name as its alias; so the first record of a default name keeps the name
\* unless an earlier record of another default name was renamed to it.
C16_FirstClaimantKeepsName ==
    Finalized =>
        /\ OneRecordPerPath
        /\ \A n \in DOMAIN par.ImportList :
              par.ImportList[n].Alias = par.ImportList[n].Name
                  <=> \A m \in 1..(n - 1) : par.ImportList[m].Alias # par.ImportList[n].Name

\* Two packages named lib have been given the aliases lib and lib1, and the
\* first of the two packages named lib1 after them another alias.
C16_Witness ==
    /\ Finalized
    /\ \E k, m, n \in DOMAIN par.ImportList :
          /\ k < m /\ m < n
          /\ par.ImportList[k].Name = "lib" /\ par.ImportList[k].Alias = "lib"
          /\ par.ImportList[m].Name = "lib" /\ par.ImportList[m].Alias = "lib1"
          /\ par.ImportList[n].Name = "lib1" /\ FirstOfDefaultName(n)
          /\ par.ImportList[n].Alias \notin {"lib", "lib1"}

\* The orders in which range can visit the flags of an annotation.
FlagOrders(ann) == RangeOrders(ann.Flags)

\* C17: what DedupImports leaves (the import list and its order, the alias
\* of every package, the names written into the identifier nodes) is the
\* same for every order in which range visits the import table, and the
\* flag list FormatFlags renders for an annotation is the same for every
\* order in which range visits its flag set; the declaration records, which
\* are kept in slices, are left as they were.
C17_IterationOrderIrrelevant ==
    [][(pc = "parse" /\ pc' = "parsed" /\ Len(par.Errors) = 0) =>
          /\ \A iter \in RangeOrders(ImportKeys(par)) :
                DedupImportsRange(par, identNames, iter) = [par |-> par', names |-> identNames']
          /\ par'.Decls = par.Decls
          /\ \A d \in DOMAIN par'.Decls :
                \A o1, o2 \in FlagOrders(par'.Decls[d].Ann) :
                    /\ FormatFlagsRange(o1) = FormatFlagsRange(o2)
                    /\ FormatFlagsRange(o1) = FormatFlags(par'.Decls[d].Ann)]_vars

\* DedupImports has run on an import table of four packages, for which
\* range has more than one order, and on an annotation of two flags.
C17_Witness ==
    /\ Finalized
    /\ Len(par.ImportList) = 4
    /\ \E d \in DOMAIN par.Decls : Cardinality(FlagOrders(par.Decls[d].Ann)) > 1

\* C18: after import finalization every recorded identifier has been
\* rewritten exactly once: a recorded type identifier named Name reads
\* alias.Name with the alias of its package, and a recorded package-name
\* identifier reads alias, also when the same identifier was visited several
\* times during extraction.
C18_RewrittenExactlyOnce ==
    Finalized =>
        \A n \in DOMAIN par.ImportList :
            LET r == par.ImportList[n]
            IN  /\ \A i \in DOMAIN r.TypeIdents :
                      identNames[r.TypeIdents[i].id] = r.Alias \o "." \o r.TypeIdents[i].name
                /\ \A i \in DOMAIN r.PkgIdents :
                      identNames[r.PkgIdents[i].id] = r.Alias

\* The identifiers that were recorded once only are rewritten once.
C18_SingleVisitsRewrittenOnce ==
    Finalized =>
        \A n \in DOMAIN par.ImportList :
            LET r == par.ImportList[n]
            IN  \A i \in DOMAIN r.TypeIdents :
                    (\A j \in DOMAIN r.TypeIdents : r.TypeIdents[j].id = r.TypeIdents[i].id => j = i)
                        => identNames[r.TypeIdents[i].id] = r.Alias \o "." \o r.TypeIdents[i].name

(***************************************************************************)
(* Properties of the declaration list.                                     *)
(***************************************************************************)
\* An accepted annotation of the package, one a type was bound to and an
\* event was made for, carries lock or wait.
LockOrWaitAccepted ==
    \E d \in DOMAIN par.Decls :
        /\ EventsOf(par.Decls[d]) # {}
        /\ annLock \in par.Decls[d].Ann.Flags \/ annWait \in par.Decls[d].Ann.Flags

SyncImported == par.NeedSync /\ "sync" \in DOMAIN par.Imports

\* C19: if at least one accepted annotation of the package carries lock or
\* wait, then after an error-free ParsePkg the need-sync indication is set
\* and the import table contains "sync", whatever the number and order of
\* the other annotations scanned before or after it.
C19_LockOrWaitImportsSync ==
    (Finalized /\ LockOrWaitAccepted) => SyncImported

\* The form of main.go, which sets the indication when a declaration is
\* recorded, imports "sync" for every accepted lock or wait.
C19_CursorImportsSync ==
    (variant = "cursor" /\ Finalized /\ LockOrWaitAccepted) => SyncImported

\* len(decl.Events); a record of the cursor form holds one event.
EventCount(decl) == IF variant = "stack" THEN Len(decl.Events) ELSE 1

\* The positions of the annotations written on the opening of a group.
GroupAnnPos ==
    UNION {{AnnAt(f, i).ann.Pos : i \in {j \in DOMAIN pkgSyntax[f] : pkgSyntax[f][j].k = "G"}} :
              f \in DOMAIN pkgSyntax} \ {0}

ErrorFreePass == pc \in {"parse", "parsed"} /\ fileIdx > 0 /\ Len(par.Errors) = 0

\* C20: every record of par.Decls after an error-free pass holds at least
\* one event, and holds more than one only when its annotation is written
\* on a group of type specs; also for a group annotation whose member specs
\* all carry their own annotations.
C20_RecordsHoldEvents ==
    ErrorFreePass =>
        \A d \in DOMAIN par.Decls :
            /\ EventCount(par.Decls[d]) >= 1
            /\ EventCount(par.Decls[d]) > 1 => par.Decls[d].Ann.Pos \in GroupAnnPos

\* The second half alone: only a group annotation holds several events.
C20_SeveralOnlyForGroups ==
    ErrorFreePass =>
        \A d \in DOMAIN par.Decls :
            EventCount(par.Decls[d]) > 1 => par.Decls[d].Ann.Pos \in GroupAnnPos

(***************************************************************************)
(* Properties of the recorded shapes.                                      *)
(***************************************************************************)
\* C21: every recorded shape has a signature: the shape of a func type has
\* exactly one, whose method name is the empty string; the shape of an
\* interface type has one or more, each with a non-empty method name; so
\* the name of the first signature tells a callable from an interface.
C21_SignaturesOfShapes ==
    \A f \in Units : \A i \in TypeSpecsOf(f) : \A ev \in ShapesOf(f, i) :
        /\ Len(ev.Funcs) >= 1
        /\ UnderIn(f, i).st = "ok" /\ UnderIn(f, i).typ.k \in {"func", "iface"}
        /\ UnderIn(f, i).typ.k = "func" =>
              Len(ev.Funcs) = 1 /\ ev.Funcs[1].Name = ""
        /\ UnderIn(f, i).typ.k = "iface" =>
              \A n \in DOMAIN ev.Funcs : ev.Funcs[n].Name # ""
        /\ (ev.Funcs[1].Name = "") <=> (UnderIn(f, i).typ.k = "func")

\* A package has been parsed into a callable shape and an interface shape of
\* several signatures.
C21_Witness ==
    /\ Finalized
    /\ \E f \in Units : \E i, j \in TypeSpecsOf(f) :
          /\ UnderIn(f, i).typ.k = "func" /\ ShapesOf(f, i) # {}
          /\ UnderIn(f, j).typ.k = "iface"
          /\ \E ev \in ShapesOf(f, j) : Len(ev.Funcs) > 1

(***************************************************************************)
(* writeFile, statement by statement (generate.go:220-243 and              *)
(* part_001:210-234, which differ in the value returned only).  The run    *)
(* starts where generate calls it: ParsePkg has returned without errors    *)
(* and with declarations.  Whether the template renders, the text formats, *)
(* the file can be created and the bytes can be written is for the         *)
(* environment to decide.                                                  *)
(***************************************************************************)
\* defer outFile.Close(): what the handle is once writeFile has returned.
NeverClosed(h) == h
DeferredClose(h) == "none"

\* The genFile handed to writeFile.
FileOf(form, p) == IF form = "stack" THEN genFileStack(p) ELSE genFile(p)

InitWrite ==
    /\ pc = "writeFile"
    /\ IdleWalk
    /\ variant \in {"stack", "cursor"}
    /\ pkgSyntax \in Packages(ProcElems, MaxProcElems)
    /\ \E R \in {ParsePkg(variant, pkgSyntax, NoNames)} :
          /\ ~R.run.panicked
          /\ ~HasErrors(R.par)
          /\ Len(R.par.Decls) > 0
          /\ par = (IF variant = "cursor" THEN generatePar(R.par) ELSE R.par)
          /\ identNames = R.names
          /\ fileIdx = R.run.files
          /\ scanLog = R.run.scanLog
          /\ bindLog = R.run.bindLog
    /\ flagShow = FALSE
    /\ pkgErrors = <<>>
    /\ outFile \in {"absent", "stale"}
    /\ handle = "none"
    /\ trace = <<>>
    /\ stderr = <<>>
    /\ stdout = <<>>
    /\ status = -1
    /\ IdleAnn

\* err := tpl.Execute(buf, file); if err != nil { panic(err) }
TplExecute ==
    /\ pc = "writeFile"
    /\ trace' = Append(trace, "tpl.Execute")
    /\ \E ok \in BOOLEAN :
          IF ok THEN pc' = "rendered" /\ UNCHANGED <<walk, ge, stderr, status>>
          ELSE pc' = "panic" /\ stderr' = Append(stderr, PanicLine) /\ status' = 2
    /\ UNCHANGED <<walk, ge, annVars, parseVars, flagShow, pkgErrors, outFile, handle, stdout>>

\* src, err := format.Source(buf.Bytes()); if err != nil { panic(err) }
FormatSource ==
    /\ pc = "rendered"
    /\ trace' = Append(trace, "format.Source")
    /\ \E ok \in BOOLEAN :
          IF ok THEN pc' = "formatted" /\ UNCHANGED <<walk, ge, stderr, status>>
          ELSE pc' = "panic" /\ stderr' = Append(stderr, PanicLine) /\ status' = 2
    /\ UNCHANGED <<walk, ge, annVars, parseVars, flagShow, pkgErrors, outFile, handle, stdout>>

\* The file os.Create leaves at the path: nothing is in it.
EmptyFile == [Package |-> "", Events |-> <<>>, Imports |-> <<>>]

\* outFile, err := os.Create(path): the file is there and empty, or the
\* error is printed and writeFile returns.
OsCreate ==
    /\ pc = "formatted"
    /\ trace' = Append(trace, "os.Create")
    /\ \E created \in BOOLEAN :
          IF created
          THEN /\ handle' = "open"
               /\ outFile' = EmptyFile
               /\ pc' = "created"
               /\ UNCHANGED <<walk, ge, stderr, status>>
          ELSE /\ stderr' = Append(stderr, FatalLine)
               /\ status' = (IF variant = "cursor" THEN 1 ELSE status)
               /\ pc' = "done"
               /\ UNCHANGED <<walk, ge, handle, outFile>>
    /\ UNCHANGED <<walk, ge, annVars, parseVars, flagShow, pkgErrors, stdout>>

\* outFile.Write(src), whose error is not looked at.
Write ==
    /\ pc = "created"
    /\ trace' = Append(trace, "Write")
    /\ \E written \in BOOLEAN :
          outFile' = (IF written THEN FileOf(variant, par) ELSE outFile)
    /\ pc' = "written"
    /\ UNCHANGED <<walk, ge, annVars, parseVars, flagShow, pkgErrors, handle, stderr, stdout, status>>

\* fmt.Printf("Generated %s\n", path) and the return, on which the deferred
\* call runs.
PrintfReturn ==
    /\ pc = "written"
    /\ stdout' = Append(stdout, GeneratedLine)
    /\ handle' = DeferredClose(handle)
    /\ trace' = IF handle' = "none" THEN Append(trace, "Close") ELSE trace
    /\ status' = (IF variant = "cursor" THEN 0 ELSE status)
    /\ pc' = "done"
    /\ UNCHANGED <<walk, ge, annVars, parseVars, flagShow, pkgErrors, outFile, stderr>>

NextWrite == TplExecute \/ FormatSource \/ OsCreate \/ Write \/ PrintfReturn

SpecWrite == InitWrite /\ [][NextWrite]_vars

\* C22: on every way out of writeFile (the return after the write, the
\* panic on a rendering failure, the panic on a formatting failure, the
\* return on a creation failure) no handle of the output file is open; a
\* handle is open only after tpl.Execute and format.Source have succeeded.
C22_NoHandleLeftOpen ==
    /\ pc \in {"done", "panic"} => handle = "none"
    /\ handle = "open" =>
          /\ Len(trace) >= 3
          /\ SubSeq(trace, 1, 3) = <<"tpl.Execute", "format.Source", "os.Create">>
          /\ pc \in {"created", "written"}

\* writeFile has returned after it created and wrote the file.
C22_Witness ==
    /\ pc = "done"
    /\ trace = <<"tpl.Execute", "format.Source", "os.Create", "Write", "Close">>
    /\ outFile = FileOf(variant, par)
    /\ handle = "none"

(***************************************************************************)
(* ExtractEvent call by call: the calls of Resolve and extractInterface    *)
(* that are in progress while the shape of one annotated type spec is      *)
(* extracted.  walk.at is "resolve" (Resolve is entered with walk.pkg and  *)
(* walk.typ) or "iface" (extractInterface is at entry i of the top frame)  *)
(* or "done"; walk.rdepth counts the calls of Resolve that have not        *)
(* returned, walk.frames the calls of extractInterface.  The goroutine     *)
(* stack holds MaxStack calls; the runtime ends the program when one more  *)
(* is made.                                                                *)
(***************************************************************************)
MaxStack == 6

\* One call of Resolve: the call it makes next, or what it returns.
ResolveNext(pkg, typ) ==
    LET call(p, t) == [st |-> "call", pkg |-> p, typ |-> t]
    IN  CASE typ.k = "ident" ->
                IF typ.obj THEN call(pkg, PkgDeclType(pkg, typ.name))
                ELSE IF ~typ.uses.ok THEN Resolved("nil", NilPkg, NilExpr)
                ELSE IF typ.uses.pkg = "" THEN Resolved("panic", NilPkg, NilExpr)
                ELSE IF typ.uses.pkg \notin PkgImports(pkg) THEN Resolved("panic", NilPkg, NilExpr)
                ELSE IF typ.name \notin PkgExported(typ.uses.pkg)
                THEN Resolved("nil", NilPkg, NilExpr)
                ELSE call(typ.uses.pkg, PkgDeclType(typ.uses.pkg, typ.name))
          [] typ.k = "sel" -> call(pkg, typ.Sel)
          [] typ.k = "paren" -> call(pkg, typ.X)
          [] OTHER -> Resolved("ok", pkg, typ)

Walking(at, pkg, typ, frames, rdepth) ==
    [at |-> at, pkg |-> pkg, typ |-> typ, frames |-> frames, rdepth |-> rdepth, res |-> ""]
WalkDone(res) ==
    [at |-> "done", pkg |-> NilPkg, typ |-> NilExpr, frames |-> <<>>, rdepth |-> 0, res |-> res]

StackDepth(w) == Len(w.frames) + w.rdepth

InitWalk ==
    /\ pc = "walk"
    /\ variant \in {"stack", "cursor"}
    /\ pkgSyntax \in {<<<<Elem("T", "spawn", kind)>>>> :
                          kind \in ShapeKinds \cup CycleKinds \cup OutsideKinds}
    /\ fileIdx = 0
    /\ par = newParser
    /\ identNames = NoNames
    /\ scanLog = <<>>
    /\ bindLog = <<>>
    /\ IdleAnn
    /\ IdleProc
    /\ ge = NoEventYet
    /\ walk = Walking("resolve", MainPath,
                      SpecType(pkgSyntax[1][1].kind, NamePosOf(pkgSyntax[1], 1, 1)), <<>>, 0)

\* What ExtractEvent or extractInterface does with what Resolve returned.
Returned(w, r) ==
    IF r.st = "panic" THEN WalkDone("panic")
    ELSE IF Len(w.frames) = 0
    THEN \* ExtractEvent
         IF r.st = "nil" THEN WalkDone("cannot resolve")
         ELSE IF r.typ.k = "func" THEN WalkDone("event")
         ELSE IF r.typ.k = "iface"
         THEN Walking("iface", NilPkg, NilExpr, <<[pkg |-> r.pkg, typ |-> r.typ, i |-> 1]>>, 0)
         ELSE WalkDone("apply only")
    ELSE \* extractInterface, for an embedded type
         IF r.st = "nil" \/ r.typ.k # "iface" THEN WalkDone("cannot resolve")
         ELSE Walking("iface", NilPkg, NilExpr,
                      Append(w.frames, [pkg |-> r.pkg, typ |-> r.typ, i |-> 1]), 0)

\* A call of Resolve is made: it calls itself, or it returns and all the
\* calls of Resolve in progress return with it.
ResolveCall ==
    /\ pc = "walk"
    /\ walk.at = "resolve"
    /\ StackDepth(walk) < MaxStack
    /\ LET r == ResolveNext(walk.pkg, walk.typ)
       IN  walk' = IF r.st = "call"
                   THEN Walking("resolve", r.pkg, r.typ, walk.frames, walk.rdepth + 1)
                   ELSE Returned(walk, r)
    /\ pc' = IF walk'.at = "done" THEN (IF walk'.res = "panic" THEN "panic" ELSE "walked") ELSE pc
    /\ UNCHANGED <<ge, annVars, parseVars, procVars>>

\* One turn of the loop of extractInterface over typ.Methods.List, or its
\* return to the call that made it.
InterfaceEntry ==
    /\ pc = "walk"
    /\ walk.at = "iface"
    /\ LET n == Len(walk.frames)
           top == walk.frames[n]
       IN  walk' =
             IF top.i > Len(top.typ.Methods)
             THEN IF n = 1 THEN WalkDone("event")
                  ELSE [walk EXCEPT !.frames = SubSeq(walk.frames, 1, n - 1)]
             ELSE IF Len(top.typ.Methods[top.i].Names) > 0
             THEN [walk EXCEPT !.frames[n].i = @ + 1]
             ELSE Walking("resolve", top.pkg, top.typ.Methods[top.i].Type,
                          [walk.frames EXCEPT ![n].i = @ + 1], 0)
    /\ pc' = IF walk'.at = "done" THEN "walked" ELSE pc
    /\ UNCHANGED <<ge, annVars, parseVars, procVars>>

\* The call that does not fit on the stack: the runtime reports a stack
\* overflow and ends the program.
StackOverflow ==
    /\ pc = "walk"
    /\ walk.at = "resolve"
    /\ StackDepth(walk) >= MaxStack
    /\ walk' = WalkDone("stack overflow")
    /\ pc' = "fatal"
    /\ UNCHANGED <<ge, annVars, parseVars, procVars>>

NextWalk == ResolveCall \/ InterfaceEntry \/ StackOverflow

SpecWalk == InitWalk /\ [][NextWalk]_vars

\* The declarations of package main a type expression leads to at once: by
\* its name, or by the types it embeds.
RECURSIVE Refs(_)
Refs(typ) ==
    CASE typ.k = "ident" -> IF typ.obj THEN {typ.name} ELSE {}
      [] typ.k = "sel" -> Refs(typ.Sel)
      [] typ.k = "paren" -> Refs(typ.X)
      [] typ.k = "iface" ->
            UNION {Refs(typ.Methods[n].Type) :
                      n \in {m \in DOMAIN typ.Methods : Len(typ.Methods[m].Names) = 0}}
      [] OTHER -> {}

RECURSIVE Reach(_, _)
Reach(names, n) ==
    IF n = 0 THEN names
    ELSE Reach(names \cup UNION {Refs(MainTypes[m]) : m \in names}, n - 1)

ReachFrom(typ) == Reach(Refs(typ), Cardinality(DOMAIN MainTypes))

\* The type expression leads to a declaration that leads to itself.
Cyclic(typ) == \E m \in ReachFrom(typ) : m \in ReachFrom(MainTypes[m])

WalkedType == SpecType(pkgSyntax[1][1].kind, NamePosOf(pkgSyntax[1], 1, 1))

\* C23: shape extraction ends on every program graph: when the chain of
\* names or the embeddings of the annotated type lead back to a type already
\* on the way, Resolve and extractInterface stop and the type is reported
\* as one that cannot be resolved; the calls never pile up without end.
C23_CycleIsResolutionFailure ==
    (pc \in {"walk", "walked", "panic", "fatal"} /\ Cyclic(WalkedType)) =>
        /\ StackDepth(walk) < MaxStack
        /\ pc # "fatal"
        /\ pc \in {"walked", "panic"} => walk.res = "cannot resolve"

\* On a graph without such a way back the calls fit on the stack, and the
\* walk ends as ExtractEvent does.
C23_AcyclicWalkEnds ==
    (pc \in {"walk", "walked", "panic", "fatal"} /\ ~Cyclic(WalkedType)) =>
        /\ pc # "fatal"
        /\ pc \in {"walked", "panic"} =>
              LET r == ExtractEvent(NoImports, 1, TypeSpec(pkgSyntax[1], 1, 0, 1))
              IN  CASE walk.res = "panic" -> r.st = "panic"
                    [] walk.res = "event" ->
                          r.st = "ok" \/ (r.st = "err" /\ r.err.kind = "no usable methods")
                    [] OTHER -> r.st = "err" /\ r.err.kind = walk.res

\* C24: Resolve is total: for every package and type expression it returns
\* a terminal expression with its package, or nil; an identifier bound to a
\* predeclared type, and one bound to a type declared in another unit of
\* the same package, give nil, which ExtractEvent reports as a type that
\* cannot be resolved.
C24_ResolveIsTotal ==
    ~Cyclic(WalkedType) =>
        /\ pc # "panic"
        /\ (pc = "walked" /\ pkgSyntax[1][1].kind \in OutsideKinds) =>
              walk.res = "cannot resolve"

\* The calls of Resolve that end otherwise than by a return are those for an
\* identifier of a predeclared type or of a type of the package itself that
\* has no object.
C24_PanicsOutsideImports ==
    pc = "panic" => pkgSyntax[1][1].kind \in OutsideKinds \cup {"emberror"}

(***************************************************************************)
(* Properties of the cursor over file.Comments.                            *)
(***************************************************************************)
\* The number of times the comment of element i of unit f has been handed
\* to extractAnnotation.
Examined(f, i) ==
    Cardinality({n \in DOMAIN scanLog :
                    scanLog[n] = ElemPos(pkgSyntax[f], i, FileBase(pkgSyntax, f))})

\* The comments of unit f that stand after the last doc comment of a type
\* declaration or type spec: all of them in a unit without such a comment.
Trailing(f) ==
    {i \in Range(Comments(pkgSyntax[f])) :
        \A j \in Range(Comments(pkgSyntax[f])) :
            pkgSyntax[f][j].k \in {"G", "T"} => j < i}

\* C25: in the cursor form every comment group of a unit has been examined
\* exactly once when ParseFile returns, so a malformed annotation and a
\* misplaced one are reported wherever they stand, also after the doc
\* comment of the last type declaration and in a unit without type
\* declarations.
C25_CursorExaminesAll ==
    variant = "cursor" =>
        \A f \in Units : FileParsed(f) =>
            /\ \A i \in Range(Comments(pkgSyntax[f])) : Examined(f, i) = 1
            /\ \A i \in Misplaced(f) :
                  Cardinality(ErrorsOf("apply only", AnnAt(f, i).ann.Pos)) = 1
            /\ \A i \in Range(Comments(pkgSyntax[f])) :
                  AnnAt(f, i).err.kind # "" =>
                      \E n \in DOMAIN par.Errors : par.Errors[n] = AnnAt(f, i).err

\* The cursor examines no comment twice, and it examines every comment up
\* to the last doc comment of a type declaration or type spec.
C25_CursorUpToLastDoc ==
    variant = "cursor" =>
        \A f \in Units : FileParsed(f) =>
            \A i \in Range(Comments(pkgSyntax[f])) :
                Examined(f, i) = (IF i \in Trailing(f) THEN 0 ELSE 1)

\* The stack form examines every comment once.
C25_StackExaminesAll ==
    variant = "stack" =>
        \A f \in Units : FileParsed(f) =>
            \A i \in Range(Comments(pkgSyntax[f])) : Examined(f, i) = 1

(***************************************************************************)
(* The names of an event: generate rendering the signatures of one event   *)
(* with extractParamsArgs (generate.go:78-120; renderSignatureArgs of      *)
(* part_001:158-190 is the same on the names) and naming the identifiers   *)
(* the template introduces (generate.go:161-184).  A signature is          *)
(* typ.Params.List with the names only: a sequence of groups, each the     *)
(* sequence of its names, <<>> for a group written without a name.  The    *)
(* names are written into the nodes, so ge.funcs are the signatures as the *)
(* nodes read now and ge.written as the source had them.                   *)
(***************************************************************************)
MaxGroups == 2

\* The identifiers the template introduces.
localIdents == <<"h", "h1">>

\* The ways a group of parameters is written.
GroupNames ==
    {<<>>, <<"_">>, <<"a">>, <<"h">>, <<"_1">>, <<"h1">>, <<"_", "_">>, <<"a", "_">>, <<"_", "h">>}

Flat(list) == Concat(list)

\* The number of parameters of a list that are written without a name.
Unnamed(list) ==
    Cardinality({g \in DOMAIN list : Len(list[g]) = 0})
        + Cardinality({n \in DOMAIN Flat(list) : Flat(list)[n] = "_"})

\* The parameter lists the compiler accepts: names in all groups or in
\* none, and no name but _ written twice; with no more parameters without
\* a name than the suffixes of the model can tell apart from _1.
ParamLists ==
    {list \in SeqsUpTo(GroupNames, MaxGroups) :
        /\ Unnamed(list) < MaxSuffix
        /\ \A g, h \in DOMAIN list : (Len(list[g]) = 0) = (Len(list[h]) = 0)
        /\ \A m, n \in DOMAIN Flat(list) :
              (m # n /\ Flat(list)[m] # "_") => Flat(list)[m] # Flat(list)[n]}

\* The first loop: dedup := newDedupSet("_"), then every name but _.
RECURSIVE AddAll(_, _, _)
AddAll(set, names, i) ==
    IF i > Len(names) THEN set
    ELSE AddAll(IF names[i] # "_" THEN DedupResolve(set, names[i]).set ELSE set, names, i + 1)

SeedBlankOnly(list) == {"_"}
SeedNames(list) == AddAll({"_"}, Flat(list), 1)

\* The inner loop over pg.Names: n.Name = dedup.Add("_") for every _.
RECURSIVE RenameBlanks(_, _, _)
RenameBlanks(names, i, set) ==
    IF i > Len(names) THEN [names |-> names, set |-> set]
    ELSE IF names[i] = "_"
    THEN Strict(LAMBDA r : RenameBlanks([names EXCEPT ![i] = r.name], i + 1, r.set),
                DedupResolve(set, "_"))
    ELSE RenameBlanks(names, i + 1, set)

\* The second loop over the groups.
RECURSIVE RenameGroups(_, _, _)
RenameGroups(list, g, set) ==
    IF g > Len(list) THEN list
    ELSE Strict(LAMBDA r : RenameGroups([list EXCEPT ![g] = r.names], g + 1, r.set),
                IF Len(list[g]) = 0
                THEN Strict(LAMBDA d : [names |-> <<d.name>>, set |-> d.set],
                            DedupResolve(set, "_"))
                ELSE RenameBlanks(list[g], 1, set))

\* dedupAll[n.Name] = true, for every name of the signature.
MergeNothing(dedupAll, names) == dedupAll
Merge(dedupAll, names) == dedupAll \cup Range(names)

extractParamsArgs(list, dedupAll) ==
    Strict(LAMBDA out : [list |-> out, args |-> Flat(out), dedupAll |-> Merge(dedupAll, Flat(out))],
           RenameGroups(list, 1, SeedNames(list)))

\* for _, n := range localIdents { ge.Dedups[n] = dedupAll.Add(n) }
RECURSIVE AddLocalIdents(_, _, _)
AddLocalIdents(i, set, dedups) ==
    IF i > Len(localIdents) THEN dedups
    ELSE Strict(LAMBDA r : AddLocalIdents(i + 1, r.set, Append(dedups, r.name)),
                DedupResolve(set, localIdents[i]))

\* The signatures of an event: those of a func type, and those of an
\* interface of two methods, the second with a parameter named as one of
\* localIdents, or without a name, or without parameters.
SecondLists == {<<(<<"h">>)>>, <<(<<>>)>>, <<(<<"h1">>), (<<"_">>)>>, <<>>}

EventFuncs ==
    {<<list>> : list \in ParamLists}
        \cup {<<list, second>> : list \in ParamLists, second \in SecondLists}

InitRender ==
    /\ pc = "render"
    /\ IdleAnn
    /\ IdleParse
    /\ IdleProc
    /\ walk = NoWalk
    /\ \E funcs \in EventFuncs :
          ge = [written |-> funcs, funcs |-> funcs, done |-> 0, Args |-> <<>>,
                dedupAll |-> {}, Dedups |-> <<>>]

\* One turn of the loop over ev.Funcs.
RenderFunc ==
    /\ pc = "render"
    /\ ge.done < Len(ge.funcs)
    /\ LET f == ge.done + 1
           r == extractParamsArgs(ge.funcs[f], ge.dedupAll)
       IN  ge' = [ge EXCEPT !.funcs[f] = r.list, !.done = f,
                            !.Args = Append(@, r.args), !.dedupAll = r.dedupAll]
    /\ UNCHANGED <<pc, walk, annVars, parseVars, procVars>>

\* The loop over localIdents, after the last signature.
RenderLocalIdents ==
    /\ pc = "render"
    /\ ge.done = Len(ge.funcs)
    /\ ge' = [ge EXCEPT !.Dedups = AddLocalIdents(1, ge.dedupAll, <<>>)]
    /\ pc' = "rendered"
    /\ UNCHANGED <<walk, annVars, parseVars, procVars>>

NextRender == RenderFunc \/ RenderLocalIdents

SpecRender == InitRender /\ [][NextRender]_vars

Rendered(f) == pc \in {"render", "rendered"} /\ f <= ge.done

\* The names the source wrote in signature f, _ apart.
UserNames(f) == Range(Flat(ge.written[f])) \ {"_"}

\* The places of signature f, by group and place in the group, that the
\* source left without a name: an omitted name or _.
DummyPlaces(f) ==
    {<<g, 1>> : g \in {h \in DOMAIN ge.written[f] : Len(ge.written[f][h]) = 0}}
        \cup UNION {{<<g, n>> : n \in {m \in DOMAIN ge.written[f][g] :
                                          ge.written[f][g][m] = "_"}} :
                       g \in DOMAIN ge.written[f]}

\* C26: after the parameters of a signature are rendered every group has a
\* name, no parameter is named _, and the names of the signature differ
\* pairwise: a parameter written without a name or as _ has a made-up name
\* that differs from the names the source wrote in that signature and from
\* every other made-up name; the names the source wrote are kept.
C26_ParameterNames ==
    pc \in {"render", "rendered"} =>
        \A f \in 1..ge.done :
            LET list == ge.funcs[f]
                names == Flat(list)
            IN  /\ Len(list) = Len(ge.written[f])
                /\ \A g \in DOMAIN list : Len(list[g]) >= 1
                /\ \A n \in DOMAIN names : names[n] # "_"
                /\ \A m, n \in DOMAIN names : m # n => names[m] # names[n]
                /\ \A p \in DummyPlaces(f) : list[p[1]][p[2]] \notin UserNames(f)
                /\ \A g \in DOMAIN list : \A n \in DOMAIN ge.written[f][g] :
                      ge.written[f][g][n] # "_" => list[g][n] = ge.written[f][g][n]
                /\ ge.Args[f] = names

\* A signature with a parameter the source named _1, one it named _ and one
\* more _ has been rendered.
C26_Witness ==
    /\ pc = "rendered"
    /\ \E f \in 1..ge.done :
          /\ "_1" \in UserNames(f)
          /\ Cardinality(DummyPlaces(f)) >= 2

\* The names of the parameters of the signatures of the event.
ParamNames == UNION {Range(Flat(ge.funcs[f])) : f \in DOMAIN ge.funcs}

\* C27: the names chosen for the identifiers the template introduces differ
\* pairwise, and each differs from every parameter name of every signature
\* of the event, the made-up names of parameters included.
C27_LocalIdentNames ==
    pc = "rendered" =>
        /\ Len(ge.Dedups) = Len(localIdents)
        /\ \A m, n \in DOMAIN ge.Dedups : m # n => ge.Dedups[m] # ge.Dedups[n]
        /\ \A n \in DOMAIN ge.Dedups : ge.Dedups[n] \notin ParamNames
        /\ \A n \in DOMAIN ge.Dedups :
              localIdents[n] \notin ParamNames \cup {ge.Dedups[m] : m \in 1..(n - 1)}
                  => ge.Dedups[n] = localIdents[n]

\* An event of two signatures has been rendered in which a parameter has
\* the name of one of the identifiers and another a made-up name.
C27_Witness ==
    /\ pc = "rendered"
    /\ Len(ge.funcs) = 2
    /\ \E n \in DOMAIN localIdents : localIdents[n] \in ParamNames /\ ge.Dedups[n] # localIdents[n]
    /\ \E f \in DOMAIN ge.funcs : DummyPlaces(f) # {}

(***************************************************************************)
(* Properties of the recorded identifiers.                                 *)
(***************************************************************************)
\* The types of the parameters of the signatures of the recorded shapes.
ParamTypes ==
    UNION {UNION {{ev.Funcs[f].Params[n].Type : n \in DOMAIN ev.Funcs[f].Params} :
                     f \in DOMAIN ev.Funcs} : ev \in AllEvents}

\* Those written pkg.T, and those written T for a type of another package.
QualifiedRefs == {t \in ParamTypes : t.k = "sel"}
ForeignRefs ==
    {t \in ParamTypes : t.k = "ident" /\ t.uses.ok /\ t.uses.kind = "TypeName"
                           /\ t.uses.pkg \notin {"", MainPath}}

\* What one walk over an expression records, starting with nothing.
WalkAlone(t) == Walk([Imports |-> NoImports, LastSel |-> NoNode], t).Imports

Entry(ident) == [id |-> ident.id, name |-> ident.name]

InTypeIdents(imports, id) ==
    \E q \in DOMAIN imports : \E n \in DOMAIN imports[q].TypeIdents :
        imports[q].TypeIdents[n].id = id
InPkgIdents(imports, id) ==
    \E q \in DOMAIN imports : \E n \in DOMAIN imports[q].PkgIdents :
        imports[q].PkgIdents[n].id = id

\* C28: a reference written pkg.T in a signature records one occurrence of
\* the package name for pkg and no type occurrence for T; a reference
\* written T to a type of another package records one type occurrence; so
\* after DedupImports the former reads alias.T, T not having been given a
\* prefix.
C28_QualifiedReferences ==
    (pc \in {"parse", "parsed"} /\ Len(par.Errors) = 0) =>
        /\ \A t \in QualifiedRefs :
              /\ DOMAIN WalkAlone(t) = {t.X.uses.pkg}
              /\ WalkAlone(t)[t.X.uses.pkg].PkgIdents = <<Entry(t.X)>>
              /\ WalkAlone(t)[t.X.uses.pkg].TypeIdents = <<>>
              /\ InPkgIdents(par.Imports, t.X.id)
              /\ ~InTypeIdents(par.Imports, t.Sel.id)
              /\ ~InTypeIdents(par.Imports, t.X.id)
              /\ Finalized =>
                    /\ NameOf(identNames, t.X) = par.Imports[t.X.uses.pkg].Alias
                    /\ NameOf(identNames, t.Sel) = t.Sel.name
        /\ \A t \in ForeignRefs :
              /\ DOMAIN WalkAlone(t) = {t.uses.pkg}
              /\ WalkAlone(t)[t.uses.pkg].TypeIdents = <<Entry(t)>>
              /\ WalkAlone(t)[t.uses.pkg].PkgIdents = <<>>
              /\ InTypeIdents(par.Imports, t.id)

\* DedupImports has run on a package in which func(c lib.Conn) is the type
\* of two declarations, so that lib.Conn was walked twice.
C28_Witness ==
    /\ Finalized
    /\ \E t \in QualifiedRefs :
          /\ Cardinality({n \in DOMAIN par.Imports[t.X.uses.pkg].PkgIdents :
                             par.Imports[t.X.uses.pkg].PkgIdents[n].id = t.X.id}) = 2
          /\ NameOf(identNames, t.X) \o "." \o NameOf(identNames, t.Sel) = "lib.Conn"

\* C29: when ParsePkg ends with an error collected, DedupImports has not
\* run: no import record has an alias, there is no import list and no
\* "sync" record, and no identifier node has been given another name than
\* the one it was loaded with.
C29_ErrorsSkipFinalization ==
    (pc = "parsed" /\ Len(par.Errors) > 0) =>
        /\ identNames = NoNames
        /\ par.ImportList = <<>>
        /\ par.PkgNameSet = {}
        /\ \A q \in DOMAIN par.Imports : par.Imports[q].Alias = ""
        /\ \A q \in DOMAIN par.Imports :
              \A n \in DOMAIN par.Imports[q].TypeIdents :
                  NameOf(identNames, par.Imports[q].TypeIdents[n]) = par.Imports[q].TypeIdents[n].name

\* ParsePkg has returned with an error for one declaration and with the
\* identifiers of another recorded for two packages.
C29_Witness ==
    /\ pc = "parsed"
    /\ Len(par.Errors) > 0
    /\ Cardinality(DOMAIN par.Imports) >= 2
    /\ \E q \in DOMAIN par.Imports : Len(par.Imports[q].TypeIdents) > 0
    /\ \E q \in DOMAIN par.Imports : Len(par.Imports[q].PkgIdents) > 0

(***************************************************************************)
(* Properties of the event names.                                          *)
(***************************************************************************)
\* The handler names of the events of the declaration records.
HandlerNames(p) ==
    UNION {IF variant = "cursor" THEN {p.Decls[d].Event.Name}
           ELSE {p.Decls[d].Events[m].Name : m \in DOMAIN p.Decls[d].Events} :
           d \in DOMAIN p.Decls}

\* The events of a file have been built and handed to writeFile.
GenerateRan == \E n \in DOMAIN trace : trace[n] = "writeFile"

\* C30: when the events of the file are built, every handler name of a
\* declaration record ends with the suffix and is longer than it, so the
\* slice bound of the event name is not negative and the event name is not
\* empty.
C30_HandlerNamesCut ==
    GenerateRan =>
        \A name \in HandlerNames(par) :
            /\ HasSuffix(name, flagHandlerSuffix)
            /\ Len(name) > Len(flagHandlerSuffix)
            /\ Len(name) - Len(flagHandlerSuffix) >= 0
            /\ CutSuffix(name) # <<>>
            /\ CutSuffix(name) \o flagHandlerSuffix = name

\* A file has been generated for a package with an event, from a unit of
\* two elements or more.
C30_Witness ==
    /\ GenerateRan
    /\ HandlerNames(par) # {}
    /\ \E f \in DOMAIN pkgSyntax : Len(pkgSyntax[f]) >= 2
====
